---------------------------- MODULE Spec2Model ----------------------------
(***************************************************************************)
(* A model of the Image-text-editor's content-aware placement engine      *)
(* (getHeatmap, its module-level cache, suggestPlacement), of the editor   *)
(* store's history (commit / undo / redo) and of the toolbar's Magic Place *)
(* handler.                                                                *)
(*                                                                         *)
(* Numbers.  The program computes in IEEE doubles and Float32Arrays; TLC   *)
(* has 32-bit integers only.  Quantities that are integers in the program  *)
(* (pixel channels, heatmap coordinates, rounded results) are integers     *)
(* here.  The heatmap scale is the exact rational sn/sd.  Real-valued      *)
(* quantities are kept in fixed point: luma in tenths of a grey level,     *)
(* saliency in units of 1/SalOne, relative luminance in units of 1/LumOne, *)
(* contrast ratio in units of 1/CrOne, and a score in units of             *)
(* 1/(WeightDen*SalOne).  Floating-point rounding error is not modelled.   *)
(***************************************************************************)
EXTENDS Integers, Sequences, FiniteSets, TLC

----------------------------------------------------------------------------
(* Arithmetic helpers: Math.max, Math.min, Math.floor, Math.round.         *)

Max(a, b) == IF a >= b THEN a ELSE b

Min(a, b) == IF a <= b THEN a ELSE b

\* Math.floor(n/d) for d > 0 (\div rounds towards minus infinity in TLA+)
FloorDiv(n, d) == n \div d

\* Math.round(n/d) for d > 0: JavaScript rounds halves up, floor(x + 0.5)
RoundDiv(n, d) == (2 * n + d) \div (2 * d)

\* floor(sqrt(n)), by bisection on [lo, hi]
RECURSIVE IsqrtIn(_, _, _)
IsqrtIn(n, lo, hi) ==
  IF lo >= hi THEN lo
  ELSE LET mid == (lo + hi + 1) \div 2
       IN IF mid * mid <= n THEN IsqrtIn(n, mid, hi) ELSE IsqrtIn(n, lo, mid - 1)

Isqrt(n) == IF n = 0 THEN 0 ELSE IsqrtIn(n, 1, Min(n, 46340))

----------------------------------------------------------------------------
(* Fixed-point units and program constants.                                *)

\* Fixed-point denominators of the model (not program constants).
SalOne == 10 * 1000
LumOne == 10 * 1000
CrOne == 10 * 100
WeightDen == 2 * 5
\* Program constants.
MaxHeatW == 384
MinBox == 6
MinStep == 4
MaxContrast == 21

----------------------------------------------------------------------------
(* The rasterised image.  ctx.drawImage / ctx.getImageData are the         *)
(* browser's: what they return for a given src at w x h is an input of the *)
(* program.  An image source is one of a few synthetic pictures.           *)

\* The pixel (r, g, b) at column x, row y (0-based) of src drawn at w x h.
Pixel(src, x, y, w, h) ==
  LET Gray128 == <<128, 128, 128>>
      Dark == <<32, 32, 32>>
      Light == <<224, 224, 224>>
      Red == <<200, 40, 40>>
      Blue == <<40, 40, 200>>
  IN CASE src = "gray" -> Gray128
       [] src = "split" -> IF 2 * x < w THEN Dark ELSE Light
       [] src = "busy" ->
            IF 2 * x < w /\ 2 * y < h
            THEN (IF (x + y) % 2 = 0 THEN Red ELSE Blue)
            ELSE Gray128
       [] OTHER -> Gray128

\* An array of the program whose cells 1..n are given by f: the sequence of
\* its values.
Array(f) == f \o <<>>

\* image.data of getImageData(0, 0, w, h), as rows of pixels (1-based).
GetImageData(src, w, h) ==
  Array([y \in 1..h |-> Array([x \in 1..w |-> Pixel(src, x - 1, y - 1, w, h)])])

----------------------------------------------------------------------------
(* Tables.  The program's typed arrays are flat, indexed y*W + x; the      *)
(* model keeps them as rows and reads them through the same flat index.    *)

At(tab, i, W) == tab[(i \div W) + 1][(i % W) + 1]

ZeroRow(n) == Array([i \in 1..n |-> 0])

\* buildIntegral: the inner loop, for x = lo..hi of one row, entered with
\* `rowsum'; the cells out[y*W + x] it writes and the rowsum it leaves.
RECURSIVE IntegralRowLoop(_, _, _, _, _)
IntegralRowLoop(dataRow, prevRow, lo, hi, rowsum) ==
  IF lo > hi THEN [cells |-> <<>>, rowsum |-> rowsum]
  ELSE IF lo = hi
  THEN LET v == dataRow[lo]
           rs == rowsum + v
       IN [cells |-> <<prevRow[lo + 1] + rs>>, rowsum |-> rs]
  ELSE LET mid == (lo + hi) \div 2
           left == IntegralRowLoop(dataRow, prevRow, lo, mid, rowsum)
           right == IntegralRowLoop(dataRow, prevRow, mid + 1, hi, left.rowsum)
       IN [cells |-> left.cells \o right.cells, rowsum |-> right.rowsum]

\* buildIntegral: the outer loop, for y = lo..hi, entered with row lo-1 of out
RECURSIVE IntegralLoop(_, _, _, _, _)
IntegralLoop(data, w, lo, hi, prevRow) ==
  IF lo > hi THEN <<>>
  ELSE IF lo = hi
  THEN <<(<<0>> \o IntegralRowLoop(data[lo], prevRow, 1, w, 0).cells)>>
  ELSE LET mid == (lo + hi) \div 2
           top == IntegralLoop(data, w, lo, mid, prevRow)
       IN top \o IntegralLoop(data, w, mid + 1, hi, top[Len(top)])

\* Row 0 and column 0 are the Float32Array's initial zeros.
buildIntegral(data, w, h) ==
  <<ZeroRow(w + 1)>> \o IntegralLoop(data, w, 1, h, ZeroRow(w + 1))

\* getHeatmap's inline RGB loop, for one channel c (1 = R, 2 = G, 3 = B)
RECURSIVE ChannelRowLoop(_, _, _, _, _, _)
ChannelRowLoop(rgbaRow, prevRow, c, lo, hi, rowsum) ==
  IF lo > hi THEN [cells |-> <<>>, rowsum |-> rowsum]
  ELSE IF lo = hi
  THEN LET rs == rowsum + rgbaRow[lo][c]
       IN [cells |-> <<prevRow[lo + 1] + rs>>, rowsum |-> rs]
  ELSE LET mid == (lo + hi) \div 2
           left == ChannelRowLoop(rgbaRow, prevRow, c, lo, mid, rowsum)
           right == ChannelRowLoop(rgbaRow, prevRow, c, mid + 1, hi, left.rowsum)
       IN [cells |-> left.cells \o right.cells, rowsum |-> right.rowsum]

RECURSIVE ChannelLoop(_, _, _, _, _, _)
ChannelLoop(rgba, c, w, lo, hi, prevRow) ==
  IF lo > hi THEN <<>>
  ELSE IF lo = hi
  THEN <<(<<0>> \o ChannelRowLoop(rgba[lo], prevRow, c, 1, w, 0).cells)>>
  ELSE LET mid == (lo + hi) \div 2
           top == ChannelLoop(rgba, c, w, lo, mid, prevRow)
       IN top \o ChannelLoop(rgba, c, w, mid + 1, hi, top[Len(top)])

ChannelIntegral(rgba, c, w, h) ==
  <<ZeroRow(w + 1)>> \o ChannelLoop(rgba, c, w, 1, h, ZeroRow(w + 1))

\* D - B - C: a rectSum that leaves out the corner counted twice
rectSumNoCorner(integral, x, y, w, h, widthPlus1) ==
  LET x2 == x + w
      y2 == y + h
      B == At(integral, y * widthPlus1 + x2, widthPlus1)
      C == At(integral, y2 * widthPlus1 + x, widthPlus1)
      D == At(integral, y2 * widthPlus1 + x2, widthPlus1)
  IN D - B - C

rectSum(integral, x, y, w, h, widthPlus1) ==
  LET x2 == x + w
      y2 == y + h
      A == At(integral, y * widthPlus1 + x, widthPlus1)
      B == At(integral, y * widthPlus1 + x2, widthPlus1)
      C == At(integral, y2 * widthPlus1 + x, widthPlus1)
      D == At(integral, y2 * widthPlus1 + x2, widthPlus1)
  IN D - B - C + A

----------------------------------------------------------------------------
(* Luma and Sobel saliency (getHeatmap, second half).                      *)

\* gray[i] = 0.2126 r + 0.7152 g + 0.0722 b, in tenths of a grey level
Luma(px) == (2126 * px[1] + 7152 * px[2] + 722 * px[3]) \div 1000

\* hypot(gx, gy) at the interior pixel (x, y), 0-based; gray as 1-based rows
SobelMag(gray, x, y) ==
  LET tl == gray[y][x]         tc == gray[y][x + 1]     tr == gray[y][x + 2]
      ml == gray[y + 1][x]                              mr == gray[y + 1][x + 2]
      bl == gray[y + 2][x]     bc == gray[y + 2][x + 1] br == gray[y + 2][x + 2]
      gx == (0 - tl) + tr - 2 * ml + 2 * mr - bl + br
      gy == (0 - tl) - 2 * tc - tr + bl + 2 * bc + br
  IN Isqrt(gx * gx + gy * gy)

Gray(rgba, w, h) ==
  Array([y \in 1..h |-> Array([x \in 1..w |-> Luma(rgba[y][x])])])

\* sal before normalisation: the Sobel loops run over 1 <= x < w-1 and
\* 1 <= y < h-1 only; every other cell keeps the array's initial 0.
SobelLoops(gray, w, h) ==
  Array([r \in 1..h |->
    Array([c \in 1..w |->
      IF 1 <= r - 1 /\ r - 1 < h - 1 /\ 1 <= c - 1 /\ c - 1 < w - 1
      THEN SobelMag(gray, c - 1, r - 1) ELSE 0])])

\* The largest magnitude the loops saw (0 when they saw none above 0).
MaxMag(mags, w, h) ==
  LET seen == {mags[y][x] : y \in 1..h, x \in 1..w} \cup {0}
  IN CHOOSE m \in seen : \A v \in seen : v <= m

\* sal[i] = sal[i] / maxMag.  maxMag starts at 1e-6, which is below every
\* non-zero magnitude: with no gradient anywhere each cell is 0 / 1e-6 = 0.
NormalizeCell(mag, maxMag) == IF maxMag = 0 THEN 0 ELSE (mag * SalOne) \div maxMag

Saliency(rgba, w, h) ==
  LET Scaled(mags, maxMag) ==
        Array([y \in 1..h |-> Array([x \in 1..w |-> NormalizeCell(mags[y][x], maxMag)])])
      Normalized(mags) == Scaled(mags, MaxMag(mags, w, h))
  IN Normalized(SobelLoops(Gray(rgba, w, h), w, h))

----------------------------------------------------------------------------
(* getHeatmap's synchronous part after the image has loaded: the Heatmap   *)
(* built for (src, origW, origH).  scale = maxW / origW is kept as sn/sd.  *)

\* scale = maxW / origW with maxW = Math.min(384, origW), as the fraction
\* ScaleN / ScaleD with ScaleD > 0.  For origW = 0 the quotient is NaN: see
\* DimsAreNaN.
ScaleN(origW) == IF origW < 0 THEN 0 - Min(MaxHeatW, origW) ELSE Min(MaxHeatW, origW)

ScaleD(origW) == IF origW < 0 THEN 0 - origW ELSE origW

\* 0 / 0 is NaN, and so are w = Math.max(1, NaN) and h.
DimsAreNaN(origW) == origW = 0

\* const w = Math.max(1, Math.round(origW * scale))
HeatW(origW) == Max(1, RoundDiv(origW * ScaleN(origW), ScaleD(origW)))

\* const h = Math.round(origH * scale): a height that is not floored at 1
HeatHNoFloor(origW, origH) == RoundDiv(origH * ScaleN(origW), ScaleD(origW))

\* const h = Math.max(1, Math.round(origH * scale))
HeatH(origW, origH) == Max(1, RoundDiv(origH * ScaleN(origW), ScaleD(origW)))

BuildHeatmap(src, origW, origH) ==
  LET Heat(w, h, rgba, sal) ==
        [w |-> w, h |-> h, sn |-> ScaleN(origW), sd |-> ScaleD(origW),
         saliency |-> sal,
         integralS |-> buildIntegral(sal, w, h),
         integralR |-> ChannelIntegral(rgba, 1, w, h),
         integralG |-> ChannelIntegral(rgba, 2, w, h),
         integralB |-> ChannelIntegral(rgba, 3, w, h)]
      Drawn(w, h, rgba) == Heat(w, h, rgba, Saliency(rgba, w, h))
      Sized(w, h) == Drawn(w, h, GetImageData(src, w, h))
  IN Sized(HeatW(origW), HeatH(origW, origH))

----------------------------------------------------------------------------
(* Colour utilities.  A hex colour is a string, kept as its sequence of    *)
(* characters.                                                             *)

\* A number of the program is kept as a fraction n / d; NaN is 0 / 0.
Rat(n, d) == [n |-> n, d |-> d]

NaN == Rat(0, 0)

IsNaN(v) == v.d = 0

\* Math.max(min, Math.min(max, n)) on integers
clamp(n, min, max) == Max(min, Min(max, n))

HexChars == <<"0", "1", "2", "3", "4", "5", "6", "7", "8", "9", "a", "b", "c", "d", "e", "f">>

UpperHexChars == <<"0", "1", "2", "3", "4", "5", "6", "7", "8", "9", "A", "B", "C", "D", "E", "F">>

IsHexChar(c) == \E i \in 1..16 : c = HexChars[i] \/ c = UpperHexChars[i]

\* The value of one hexadecimal digit, as parseInt(_, 16) reads it.
DigitVal(c) == (CHOOSE i \in 1..16 : c = HexChars[i] \/ c = UpperHexChars[i]) - 1

\* s.slice(from, to) for 0 <= from <= to: both ends are cut at the length
slice(s, from, to) == SubSeq(s, Min(from, Len(s)) + 1, Min(to, Len(s)))

\* parseInt(s, 16) of a string of at most two characters, none of them a
\* sign, white space or x: the value of the longest prefix of hexadecimal
\* digits, NaN when that prefix is empty.
parseInt16(s) ==
  IF Len(s) = 0 \/ ~IsHexChar(s[1]) THEN NaN
  ELSE IF Len(s) = 1 \/ ~IsHexChar(s[2]) THEN Rat(DigitVal(s[1]), 1)
  ELSE Rat(16 * DigitVal(s[1]) + DigitVal(s[2]), 1)

\* hex.replace('#', ''): the first '#' removed
RemoveHash(hex) ==
  IF \E i \in 1..Len(hex) : hex[i] = "#"
  THEN LET i == CHOOSE j \in 1..Len(hex) : hex[j] = "#" /\ \A k \in 1..(j - 1) : hex[k] # "#"
       IN SubSeq(hex, 1, i - 1) \o SubSeq(hex, i + 1, Len(hex))
  ELSE hex

hexToRgb(hex) ==
  LET Channels(value) ==
        [r |-> parseInt16(slice(value, 0, 2)),
         g |-> parseInt16(slice(value, 2, 4)),
         b |-> parseInt16(slice(value, 4, 6))]
  IN Channels(RemoveHash(hex))

\* clamp(Math.round(v), 0, 255).toString(16): a toHex without padStart
toHexNoPad(v) ==
  IF IsNaN(v) THEN <<"N", "a", "N">>
  ELSE LET c == clamp(RoundDiv(v.n, v.d), 0, 255)
       IN IF c < 16 THEN <<HexChars[c + 1]>>
          ELSE <<HexChars[(c \div 16) + 1], HexChars[(c % 16) + 1]>>

\* toHex(v) = clamp(Math.round(v), 0, 255).toString(16).padStart(2, '0');
\* Math.round, Math.min and Math.max pass NaN on, and its string is "NaN".
toHex(v) ==
  IF IsNaN(v) THEN <<"N", "a", "N">>
  ELSE LET c == clamp(RoundDiv(v.n, v.d), 0, 255)
       IN <<HexChars[(c \div 16) + 1], HexChars[(c % 16) + 1]>>

rgbToHex(rgb) == <<"#">> \o toHex(rgb.r) \o toHex(rgb.g) \o toHex(rgb.b)

\* lin(c / 255) of relativeLuminance for c = 0..255, in units of 1/LumOne
LinTable ==
  <<0, 3, 6, 9, 12, 15, 18, 21, 24, 27, 30, 33, 37, 40, 44, 48, 52, 56, 60, 65, 70, 75, 80,
    86, 91, 97, 103, 110, 116, 123, 130, 137, 144, 152, 160, 168, 176, 185, 194, 203, 212,
    222, 232, 242, 252, 262, 273, 284, 296, 307, 319, 331, 343, 356, 369, 382, 395, 409, 423,
    437, 452, 467, 482, 497, 513, 529, 545, 561, 578, 595, 612, 630, 648, 666, 685, 704, 723,
    742, 762, 782, 802, 823, 844, 865, 887, 908, 931, 953, 976, 999, 1022, 1046, 1070, 1095,
    1119, 1144, 1170, 1195, 1221, 1248, 1274, 1301, 1329, 1356, 1384, 1413, 1441, 1470, 1500,
    1529, 1559, 1590, 1620, 1651, 1683, 1714, 1746, 1779, 1812, 1845, 1878, 1912, 1946, 1981,
    2016, 2051, 2086, 2122, 2159, 2195, 2232, 2270, 2307, 2346, 2384, 2423, 2462, 2502, 2542,
    2582, 2623, 2664, 2705, 2747, 2789, 2831, 2874, 2918, 2961, 3005, 3050, 3095, 3140, 3185,
    3231, 3278, 3325, 3372, 3419, 3467, 3515, 3564, 3613, 3663, 3712, 3763, 3813, 3864, 3916,
    3968, 4020, 4072, 4125, 4179, 4233, 4287, 4342, 4397, 4452, 4508, 4564, 4621, 4678, 4735,
    4793, 4851, 4910, 4969, 5029, 5089, 5149, 5210, 5271, 5333, 5395, 5457, 5520, 5583, 5647,
    5711, 5776, 5841, 5906, 5972, 6038, 6105, 6172, 6240, 6308, 6376, 6445, 6514, 6584, 6654,
    6724, 6795, 6867, 6939, 7011, 7084, 7157, 7231, 7305, 7379, 7454, 7529, 7605, 7682, 7758,
    7835, 7913, 7991, 8070, 8148, 8228, 8308, 8388, 8469, 8550, 8632, 8714, 8796, 8879, 8963,
    9047, 9131, 9216, 9301, 9387, 9473, 9560, 9647, 9734, 9823, 9911, 10000>>

\* In units of 1/LumOne; NaN when a channel of the colour is NaN.
relativeLuminance(hex) ==
  LET Lum(rgb, lin) ==
        IF IsNaN(rgb.r) \/ IsNaN(rgb.g) \/ IsNaN(rgb.b) THEN NaN
        ELSE Rat((2126 * lin[rgb.r.n + 1] + 7152 * lin[rgb.g.n + 1]
                  + 722 * lin[rgb.b.n + 1]) \div 10000, LumOne)
  IN Lum(hexToRgb(hex), LinTable)

\* (L1 + 0.05) / (L2 + 0.05): a ratio that does not put the lighter colour on
\* top
contrastRatioUnordered(aHex, bHex) ==
  LET Ratio(L1, L2) ==
        IF IsNaN(L1) \/ IsNaN(L2) THEN NaN
        ELSE Rat(((L1.n + LumOne \div 20) * CrOne) \div (L2.n + LumOne \div 20), CrOne)
  IN Ratio(relativeLuminance(aHex), relativeLuminance(bHex))

\* (hi + 0.05) / (lo + 0.05), in units of 1/CrOne.  L1 >= L2 is false when
\* either is NaN, and the quotient is NaN then.
contrastRatio(aHex, bHex) ==
  LET Ratio(L1, L2) ==
        IF IsNaN(L1) \/ IsNaN(L2) THEN NaN
        ELSE LET hi == IF L1.n >= L2.n THEN L1.n ELSE L2.n
                 lo == IF L1.n >= L2.n THEN L2.n ELSE L1.n
             IN Rat(((hi + LumOne \div 20) * CrOne) \div (lo + LumOne \div 20), CrOne)
  IN Ratio(relativeLuminance(aHex), relativeLuminance(bHex))

----------------------------------------------------------------------------
(* suggestPlacement.                                                       *)

\* A score: a finite number (in units of 1/(WeightDen*SalOne)), -Infinity or
\* NaN.
Finite(v) == [kind |-> "finite", v |-> v]

NegInfinity == [kind |-> "-Infinity", v |-> 0]

NaNScore == [kind |-> "NaN", v |-> 0]

\* a > b on scores: false when either is NaN
ScoreGt(a, b) ==
  /\ a.kind = "finite"
  /\ b.kind = "-Infinity" \/ (b.kind = "finite" /\ a.v > b.v)

\* rectSum / (w * h), as the rational it is
avgFromIntegral(integral, x, y, w, h, widthPlus1) ==
  Rat(rectSum(integral, x, y, w, h, widthPlus1), w * h)

\* const margin = Math.max(0, Math.floor(opts.margin * heatmap.scale))
MarginPx(opts) == Max(0, FloorDiv(opts.margin * opts.heatmap.sn, opts.heatmap.sd))

\* const tw = Math.max(6, Math.round(textW * heatmap.scale)), and th
BoxW(opts) == Max(MinBox, RoundDiv(opts.textW * opts.heatmap.sn, opts.heatmap.sd))

BoxH(opts) == Max(MinBox, RoundDiv(opts.textH * opts.heatmap.sn, opts.heatmap.sd))

\* tw > heatmap.w || th > heatmap.h: a box as wide as the heatmap is searched
TooBigStrict(opts) == BoxW(opts) > opts.heatmap.w \/ BoxH(opts) > opts.heatmap.h

\* if (tw >= heatmap.w || th >= heatmap.h)
TooBig(opts) == BoxW(opts) >= opts.heatmap.w \/ BoxH(opts) >= opts.heatmap.h

\* const step = Math.max(4, Math.floor(Math.min(tw, th) / 3))
StepOf(opts) == Max(MinStep, FloorDiv(Min(BoxW(opts), BoxH(opts)), 3))

\* textColor.startsWith('#') ? textColor : rgbToHex(hexToRgb(textColor))
TextHex(textColor) ==
  IF Len(textColor) > 0 /\ textColor[1] = "#" THEN textColor
  ELSE rgbToHex(hexToRgb(textColor))

\* One avoid rect mapped into heatmap pixels.
ScaleAvoid(r, opts) ==
  LET sn == opts.heatmap.sn
      sd == opts.heatmap.sd
      avoidPadPx == Max(0, opts.avoidPadding)
      pad == RoundDiv(avoidPadPx * sn, sd)
  IN [x |-> Max(0, RoundDiv(r.x * sn, sd) - pad),
      y |-> Max(0, RoundDiv(r.y * sn, sd) - pad),
      w |-> Min(opts.heatmap.w, RoundDiv(r.width * sn, sd) + 2 * pad),
      h |-> Min(opts.heatmap.h, RoundDiv(r.height * sn, sd) + 2 * pad)]

scaledAvoid(opts) ==
  [i \in 1..Len(opts.avoidRects) |-> ScaleAvoid(opts.avoidRects[i], opts)]

overlaps(ax, ay, aw, ah, b) ==
  ax < b.x + b.w /\ ax + aw > b.x /\ ay < b.y + b.h /\ ay + ah > b.y

\* The constants suggestPlacement computes before its loops.
Consts(opts) ==
  [margin |-> MarginPx(opts), tw |-> BoxW(opts), th |-> BoxH(opts),
   step |-> StepOf(opts), W1 |-> opts.heatmap.w + 1,
   textHex |-> TextHex(opts.textColor), scaledAvoid |-> scaledAvoid(opts)]

\* scaledAvoid.some(b => overlaps(x, y, tw, th, b))
Blocked(c, x, y) ==
  \E i \in 1..Len(c.scaledAvoid) : overlaps(x, y, c.tw, c.th, c.scaledAvoid[i])

\* avgSal of the candidate at (x, y), in units of 1/SalOne
AvgSal(opts, c, x, y) ==
  LET Floor(a) == a.n \div a.d
  IN Floor(avgFromIntegral(opts.heatmap.integralS, x, y, c.tw, c.th, c.W1))

\* The candidate's score: alpha * (1 - avgSal) + beta * min(21, cr) / 21
ScoreAt(opts, c, x, y) ==
  LET hm == opts.heatmap
      r == avgFromIntegral(hm.integralR, x, y, c.tw, c.th, c.W1)
      g == avgFromIntegral(hm.integralG, x, y, c.tw, c.th, c.W1)
      b == avgFromIntegral(hm.integralB, x, y, c.tw, c.th, c.W1)
      bgHex == rgbToHex([r |-> r, g |-> g, b |-> b])
      crNorm(cr) == (Min(MaxContrast * CrOne, cr.n) * SalOne) \div (MaxContrast * CrOne)
      Score(cr) ==
        IF IsNaN(cr) THEN NaNScore
        ELSE Finite(opts.alpha * (SalOne - AvgSal(opts, c, x, y)) + opts.beta * crNorm(cr))
  IN Score(contrastRatio(bgHex, c.textHex))

\* score >= best.score: a search in which the last of equal scores wins
AtLeast(score, best) ==
  /\ score.kind = "finite"
  /\ best.score.kind = "-Infinity" \/ (best.score.kind = "finite" /\ score.v >= best.score.v)

\* if (score > best.score) best = { x, y, score }
Better(score, best) == ScoreGt(score, best.score)

\* The body of the inner loop at (st.x, y), with its x += step.  st.best is
\* the running best.  st.visited lists the grid points the loops have reached
\* so far and st.reads counts the calls of avgFromIntegral: a history of the
\* search kept for the properties (the program keeps `best' only).
Visit(opts, c, y, st) ==
  LET x == st.x
      seen == Append(st.visited, <<x, y>>)
      Keep(score) ==
        IF Better(score, st.best)
        THEN [x |-> x + c.step, best |-> [x |-> x, y |-> y, score |-> score],
              visited |-> seen, reads |-> st.reads + 4]
        ELSE [x |-> x + c.step, best |-> st.best, visited |-> seen,
              reads |-> st.reads + 4]
  IN IF Blocked(c, x, y)
     THEN [x |-> x + c.step, best |-> st.best, visited |-> seen, reads |-> st.reads]
     ELSE Keep(ScoreAt(opts, c, x, y))

\* for (let x = margin; x <= heatmap.w - margin - tw; x += step)
RECURSIVE InnerLoop(_, _, _, _)
InnerLoop(opts, c, y, st) ==
  IF st.x <= opts.heatmap.w - c.margin - c.tw
  THEN InnerLoop(opts, c, y, Visit(opts, c, y, st))
  ELSE st

\* One turn of the outer loop: the inner loop at st.y, then y += step.
Row(opts, c, st) ==
  LET After(inner) ==
        [y |-> st.y + c.step, best |-> inner.best, visited |-> inner.visited,
         reads |-> inner.reads]
  IN After(InnerLoop(opts, c, st.y,
                     [x |-> c.margin, best |-> st.best, visited |-> st.visited,
                      reads |-> st.reads]))

\* for (let y = margin; y <= heatmap.h - margin - th; y += step)
RECURSIVE OuterLoop(_, _, _)
OuterLoop(opts, c, st) ==
  IF st.y <= opts.heatmap.h - c.margin - c.th
  THEN OuterLoop(opts, c, Row(opts, c, st))
  ELSE st

\* let best = { x: margin, y: margin, score: -Infinity }
InitialBest(c) == [x |-> c.margin, y |-> c.margin, score |-> NegInfinity]

\* The two loops.
GridSearch(opts) ==
  LET Loops(c) ==
        OuterLoop(opts, c, [y |-> c.margin, best |-> InitialBest(c), visited |-> <<>>,
                            reads |-> 0])
  IN Loops(Consts(opts))

\* The fallback's return value: x and y are not rounded.
Fallback(opts) ==
  LET hm == opts.heatmap
      margin == MarginPx(opts)
  IN [x |-> Rat(margin * hm.sd, hm.sn), y |-> Rat(margin * hm.sd, hm.sn),
      score |-> Finite(0)]

\* Map back to original canvas space: Math.round(best.x / heatmap.scale)
MapBack(best, hm) ==
  [x |-> Rat(RoundDiv(best.x * hm.sd, hm.sn), 1),
   y |-> Rat(RoundDiv(best.y * hm.sd, hm.sn), 1),
   score |-> best.score]

\* The call with its history: the result, whether it left through the
\* fallback, `best' in heatmap pixels at the end of the loops, the grid points
\* visited and the number of reads of the integral images.
Search(opts) ==
  LET Mapped(g) ==
        [result |-> MapBack(g.best, opts.heatmap), fallback |-> FALSE,
         best |-> g.best, visited |-> g.visited, reads |-> g.reads]
  IN IF TooBig(opts)
     THEN [result |-> Fallback(opts), fallback |-> TRUE,
           best |-> InitialBest(Consts(opts)), visited |-> <<>>, reads |-> 0]
     ELSE Mapped(GridSearch(opts))

suggestPlacement(opts) == Search(opts).result

\* The turns of a loop for (let v = from; v <= last; v += step)
RECURSIVE LoopTrips(_, _, _)
LoopTrips(v, last, step) ==
  IF v <= last THEN 1 + LoopTrips(v + step, last, step) ELSE 0

\* The number of grid candidates the two loops visit: none through the
\* fallback, otherwise the turns of the y loop times those of the x loop.
GridVisits(opts) ==
  IF TooBig(opts) THEN 0
  ELSE LoopTrips(MarginPx(opts), opts.heatmap.h - MarginPx(opts) - BoxH(opts), StepOf(opts))
       * LoopTrips(MarginPx(opts), opts.heatmap.w - MarginPx(opts) - BoxW(opts), StepOf(opts))


----------------------------------------------------------------------------
(* State.                                                                  *)

VARIABLES
  \* one call of suggestPlacement
  plImg,    \* the image (src, origW, origH) the heatmap is built from
  plHeat,   \* the Heatmap a suggestPlacement call is given
  plOpts,   \* the argument of the call
  plOut,    \* what the call did: its result, and the history of its search
  plPc,     \* "start", "built" once the heatmap is there, "done" after the call
  runs,     \* the calls of suggestPlacement made on heatmaps getHeatmap returned
  col,      \* one call of the colour utilities: its arguments and results
  page,     \* one load of the page: the URL hash, the autosave, the effect
  keys,     \* the arrow keys pressed on the canvas, the clock and the timers
  \* getHeatmap and the module's cache
  cache,    \* the Map: for each key the Heatmap object stored under it, if any
  heap,     \* the Heatmap objects constructed so far, in order of construction
  calls,    \* the calls of getHeatmap: where each one is, and what it returned
  sets,     \* for each key, how many times cache.set(key, _) has run
  \* the editor store
  bg,           \* the background image, or Null
  layers,       \* the text layers, back to front
  selectedIds,  \* the ids of the selected layers
  zoom,         \* the viewport zoom, in tenths
  past,         \* history.past
  future,       \* history.future
  nextId,       \* the next value of crypto.randomUUID()
  trail,        \* the documents before the committed changes not yet undone
  undone,       \* after an undo of a committed change: the document before it
  \* Magic Place
  magic         \* the run of handleMagicPlace in progress, if any

placeVars == <<plImg, plHeat, plOpts, plOut, plPc, runs, col, page, keys>>

cacheVars == <<cache, heap, calls, sets>>

storeDoc == <<bg, layers, selectedIds, zoom, past, future>>

storeVars == <<bg, layers, selectedIds, zoom, past, future, nextId, trail, undone>>

vars ==
  <<plImg, plHeat, plOpts, plOut, plPc, runs, col, page, keys, cache, heap, calls,
    sets,
    bg, layers, selectedIds, zoom, past, future, nextId, trail, undone, magic>>

----------------------------------------------------------------------------
(* suggestPlacement as a pure function: the calls checked.                 *)

MaxMargin == 2
MaxPad == 1

White == <<"#", "f", "f", "f", "f", "f", "f">>
Black == <<"#", "0", "0", "0", "0", "0", "0">>
WhiteNoHash == <<"F", "F", "F", "F", "F", "F">>
\* what the hex field of the colour picker holds half-way through typing
ShortHex == <<"#", "f", "f", "f">>

Rect(x, y, width, height) == [x |-> x, y |-> y, width |-> width, height |-> height]

\* Images small enough that the heatmap has the image's own size (scale 1).
SmallImages == {<<"gray", 16, 12>>, <<"split", 16, 12>>, <<"busy", 16, 12>>}

\* Images wider than 384 pixels: the heatmap is a downscaled copy (scale 1/3).
WideImages == {<<"gray", 1152, 216>>, <<"split", 1152, 216>>}

\* The 400 x 300 scenario (scale 24/25).
ScenarioImages == {<<"gray", 400, 300>>}

\* Images with fewer than 3 columns or rows, flat and not.
TinyImages == {<<"gray", 2, 6>>, <<"split", 2, 6>>, <<"split", 6, 2>>}

SmallRects ==
  {<<>>,
   <<Rect(0, 0, 8, 12)>>,
   <<Rect(0, 0, 16, 12)>>,
   <<Rect(0 - 2, 0 - 2, 6, 6)>>,
   <<Rect(6, 0, 4, 12)>>,
   <<Rect(12, 4, 10, 10)>>,
   <<Rect(0, 0, 8, 12), Rect(8, 0, 8, 12)>>}

WideRects ==
  {<<>>,
   <<Rect(0, 0, 49, 216)>>,
   <<Rect(0, 0, 576, 216)>>,
   <<Rect(0, 0, 1000, 216)>>,
   <<Rect(0, 0, 1152, 216)>>}

ScenarioRects ==
  {<<>>,
   <<Rect(0, 0, 200, 300)>>,
   <<Rect(0, 0, 400, 300)>>}

Opts(hm, textW, textH, textColor, margin, rects, pad) ==
  [heatmap |-> hm, textW |-> textW, textH |-> textH, textColor |-> textColor,
   alpha |-> 6, beta |-> 4, margin |-> margin, avoidRects |-> rects,
   avoidPadding |-> pad]

\* The calls made on the heatmap of an image of each class.
Requests(img, hm) ==
  IF img \in SmallImages
  THEN {Opts(hm, textW, textH, textColor, margin, rects, pad) :
          textW \in {3, 7, 16}, textH \in {4, 12},
          textColor \in {White, Black, WhiteNoHash, ShortHex},
          margin \in (0..MaxMargin) \cup {6}, pad \in 0..MaxPad,
          rects \in SmallRects}
  ELSE IF img \in WideImages
  THEN {Opts(hm, textW, 144, White, margin, rects, pad) :
          textW \in {144, 145, 1152}, margin \in {0, 12},
          pad \in (0..MaxPad) \cup {8}, rects \in WideRects}
  ELSE IF img \in TinyImages
  THEN {Opts(hm, 1, 1, textColor, 0, <<>>, 0) : textColor \in {White, Black}}
  ELSE {Opts(hm, textW, 40, White, 8, rects, 4) :
          textW \in {100, 400}, rects \in ScenarioRects}

NoHeat ==
  [w |-> 1, h |-> 1, sn |-> 1, sd |-> 1, saliency |-> <<>>, integralS |-> <<>>,
   integralR |-> <<>>, integralG |-> <<>>, integralB |-> <<>>]

NoImage == <<"none", 1, 1>>

NoOut ==
  [result |-> [x |-> Rat(0, 1), y |-> Rat(0, 1), score |-> Finite(0)],
   fallback |-> FALSE, best |-> [x |-> 0, y |-> 0, score |-> Finite(0)],
   visited |-> <<>>, reads |-> 0]

\* No call of the colour utilities yet.
NoColour ==
  [pc |-> "idle", a |-> <<>>, b |-> <<>>, hex |-> <<>>, ab |-> NaN, ba |-> NaN,
   aa |-> NaN, La |-> NaN]

\* The page is not open.  `hash' holds the payload of a #s= hash, `autosave'
\* what localStorage keeps under 'itc-autosave', `presets' the store's presets;
\* `link' remembers the payload the page was opened with, `applied' counts
\* the calls of hydrateFromShare and `early' tells whether one of them ran
\* before the rehydration had finished.
NoPage ==
  [pc |-> "closed", hash |-> <<>>, autosave |-> <<>>, presets |-> <<>>,
   hydrated |-> FALSE, mounted |-> FALSE, subscribed |-> FALSE, mounts |-> 0,
   link |-> <<>>, applied |-> 0, early |-> FALSE]

\* No key pressed yet.  `now' is the clock in milliseconds, `last' the time
\* of the last nudge, `timers' the due times of the pending setTimeout
\* callbacks; `count' counts the nudges, `commits' the commits their timers
\* made, and `early' those of them made before the last nudge.
NoKeys ==
  [count |-> 0, now |-> 0, last |-> 0, timers |-> <<>>, commits |-> 0, early |-> 0]

InitPlace ==
  /\ plPc = "start"
  /\ plImg = NoImage
  /\ plHeat = NoHeat
  /\ plOpts = Opts(NoHeat, 1, 1, White, 0, <<>>, 0)
  /\ plOut = NoOut
  /\ runs = <<>>
  /\ col = NoColour
  /\ page = NoPage
  /\ keys = NoKeys

----------------------------------------------------------------------------
(* The editor store.  The document is bg, layers, selectedIds and zoom;    *)
(* history.past and history.future hold JSON snapshots of the document.    *)
(* A store value is the record of these six fields; zoom is in tenths.     *)

HistoryLimit == 50

ZoomOne == 10
ZoomMin == 1
ZoomMax == 50

\* bg: null
Null == [src |-> "null", width |-> 0, height |-> 0]

BackgroundImage(src, width, height) == [src |-> src, width |-> width, height |-> height]

\* The fields of a TextLayer the document operations read or write.
TextLayer(id, x, y, width, height, fill) ==
  [id |-> id, x |-> x, y |-> y, width |-> width, height |-> height, fill |-> fill]

initialState ==
  [bg |-> Null, layers |-> <<>>, selectedIds |-> <<>>, zoom |-> ZoomOne,
   past |-> <<>>, future |-> <<>>]

\* state.layers.find((l) => l.id === id): the index of the first layer with
\* that id, 0 if there is none.
RECURSIVE FindFrom(_, _, _)
FindFrom(ls, id, i) ==
  IF i > Len(ls) THEN 0
  ELSE IF ls[i].id = id THEN i
  ELSE FindFrom(ls, id, i + 1)

Find(ls, id) == FindFrom(ls, id, 1)

setBg(S, b) ==
  IF b # Null
  THEN [S EXCEPT !.bg = b, !.past = <<>>, !.future = <<>>, !.selectedIds = <<>>]
  ELSE [S EXCEPT !.bg = b]

\* addTextLayer(): id is the value of crypto.randomUUID()
addTextLayer(S, id) ==
  [S EXCEPT !.layers = Append(@, TextLayer(id, 100, 100, 300, 80, Black)),
            !.selectedIds = <<id>>]

\* Object.assign(layer, patch), for a patch of fields of the layer
Assign(layer, patch) ==
  LET Field(f) == IF f \in DOMAIN patch THEN patch[f] ELSE layer[f]
  IN TextLayer(Field("id"), Field("x"), Field("y"), Field("width"), Field("height"),
               Field("fill"))

updateLayer(S, id, patch) ==
  LET i == Find(S.layers, id)
  IN IF i = 0 THEN S ELSE [S EXCEPT !.layers[i] = Assign(@, patch)]

deleteLayer(S, id) ==
  LET other(l) == l.id # id
      otherId(selectedId) == selectedId # id
  IN [S EXCEPT !.layers = SelectSeq(@, other), !.selectedIds = SelectSeq(@, otherId)]

selectLayers(S, ids) == [S EXCEPT !.selectedIds = ids]

\* The object commit, undo and redo serialise.
Doc(S) == [bg |-> S.bg, layers |-> S.layers, selectedIds |-> S.selectedIds, zoom |-> S.zoom]

\* JSON.stringify of that object: the text is modelled by the sequence of its
\* values in the order they are written, a layer by the values of its keys.
JSONstringify(doc) ==
  LET StringifyBg(b) == IF b = Null THEN <<"null">> ELSE <<b.src, b.width, b.height>>
      StringifyLayer(l) == <<l.id, l.x, l.y, l.width, l.height, l.fill>>
  IN <<StringifyBg(doc.bg),
       [i \in 1..Len(doc.layers) |-> StringifyLayer(doc.layers[i])] \o <<>>,
       doc.selectedIds,
       doc.zoom>>

JSONparse(text) ==
  LET ParseBg(t) == IF Len(t) = 1 THEN Null ELSE BackgroundImage(t[1], t[2], t[3])
      ParseLayer(t) == TextLayer(t[1], t[2], t[3], t[4], t[5], t[6])
  IN [bg |-> ParseBg(text[1]),
      layers |-> [i \in 1..Len(text[2]) |-> ParseLayer(text[2][i])] \o <<>>,
      selectedIds |-> text[3],
      zoom |-> text[4]]

\* A commit that drops the newest snapshot when the history is full: pop()
\* where the code has shift().
commitPop(S) ==
  LET pushed == Append(S.past, JSONstringify(Doc(S)))
  IN [S EXCEPT !.past = IF Len(pushed) > HistoryLimit
                        THEN SubSeq(pushed, 1, Len(pushed) - 1) ELSE pushed,
               !.future = <<>>]

commit(S) ==
  LET pushed == Append(S.past, JSONstringify(Doc(S)))
  IN [S EXCEPT !.past = IF Len(pushed) > HistoryLimit THEN Tail(pushed) ELSE pushed,
               !.future = <<>>]

undo(S) ==
  IF S.past = <<>> THEN S
  ELSE LET snapshot == S.past[Len(S.past)]
           previousState == JSONparse(snapshot)
       IN [bg |-> previousState.bg,
           layers |-> previousState.layers,
           selectedIds |-> previousState.selectedIds,
           zoom |-> previousState.zoom,
           past |-> SubSeq(S.past, 1, Len(S.past) - 1),
           future |-> Append(S.future, JSONstringify(Doc(S)))]

\* A redo that reads the newest snapshot of future and leaves it there.
redoPeek(S) ==
  IF S.future = <<>> THEN S
  ELSE LET snapshot == S.future[Len(S.future)]
           futureState == JSONparse(snapshot)
       IN [bg |-> futureState.bg,
           layers |-> futureState.layers,
           selectedIds |-> futureState.selectedIds,
           zoom |-> futureState.zoom,
           past |-> Append(S.past, JSONstringify(Doc(S))),
           future |-> S.future]

redo(S) ==
  IF S.future = <<>> THEN S
  ELSE LET snapshot == S.future[Len(S.future)]
           futureState == JSONparse(snapshot)
       IN [bg |-> futureState.bg,
           layers |-> futureState.layers,
           selectedIds |-> futureState.selectedIds,
           zoom |-> futureState.zoom,
           past |-> Append(S.past, JSONstringify(Doc(S))),
           future |-> SubSeq(S.future, 1, Len(S.future) - 1)]

reset == initialState

\* A ShareDoc; zoom is <<>> when the payload has no number there.
ShareDoc(v, b, ls, z) == [v |-> v, bg |-> b, layers |-> ls, zoom |-> z]

hydrateFromShare(S, doc) ==
  IF doc.v # 1 THEN S
  ELSE [bg |-> doc.bg,
        layers |-> doc.layers,
        selectedIds |-> <<>>,
        zoom |-> IF doc.zoom = <<>> THEN ZoomOne ELSE Max(ZoomMin, Min(ZoomMax, doc.zoom[1])),
        past |-> <<>>,
        future |-> <<>>]

\* The store as a value, and the assignment of one.
Store ==
  [bg |-> bg, layers |-> layers, selectedIds |-> selectedIds, zoom |-> zoom,
   past |-> past, future |-> future]

Set(S) ==
  /\ bg' = S.bg
  /\ layers' = S.layers
  /\ selectedIds' = S.selectedIds
  /\ zoom' = S.zoom
  /\ past' = S.past
  /\ future' = S.future

\* The backgrounds of the model: a flat gray 40x36 image, and one whose data
\* URL does not decode.
GrayBg == BackgroundImage("gray", 40, 36)

BrokenBg == BackgroundImage("broken", 40, 36)

Backgrounds == {GrayBg, BrokenBg}

\* Two small layers far apart, in opposite corners.
DocApart ==
  ShareDoc(1, GrayBg, <<TextLayer(1, 30, 0, 10, 6, White), TextLayer(2, 0, 30, 10, 6, Black)>>, <<>>)

\* A layer as wide as the image, and a small one at (12, 12).
DocWide ==
  ShareDoc(1, GrayBg, <<TextLayer(1, 0, 0, 40, 10, White), TextLayer(2, 12, 12, 10, 6, Black)>>, <<70>>)

\* A small layer over one that covers the whole image.
DocCovered ==
  ShareDoc(1, GrayBg, <<TextLayer(1, 0, 0, 40, 36, Black), TextLayer(2, 2, 2, 10, 6, White)>>, <<>>)

\* A document whose background does not load.
DocBroken ==
  ShareDoc(1, BrokenBg, <<TextLayer(1, 0, 0, 10, 6, White)>>, <<>>)

SharedDocs == {DocApart, DocWide, DocCovered, DocBroken}

\* The largest id among layers, 0 if there is none.
MaxId(ls) ==
  LET ids == {ls[i].id : i \in 1..Len(ls)} \cup {0}
  IN CHOOSE m \in ids : \A v \in ids : v <= m

----------------------------------------------------------------------------
(* getHeatmap and its cache.  A Heatmap object is known by its address: its *)
(* index in `heap'.  Address 0 is no object (undefined).                   *)

MaxCalls == 3

\* The image sources: "broken" is one whose load fires onerror.
CacheSrcs == {"gray", "broken"}

Loads(src) == src # "broken"

\* The (origW, origH) a caller passes.
CacheDims == {<<8, 6>>, <<8, 0>>, <<0, 6>>, <<0 - 8, 6>>}

\* const key = `${bgSrc}@${origW}x${origH}`: the sources of the model hold no
\* '@', so two keys are the same string only if src, origW and origH agree.
Key(bgSrc, origW, origH) == <<bgSrc, origW, origH>>

CallKeys == {Key(src, d[1], d[2]) : src \in CacheSrcs, d \in CacheDims}

\* The keys of the heatmaps suggestPlacement is called on repeatedly.
RepeatKeys == {Key("gray", 12, 8), Key("busy", 12, 8)}

\* The keys of the model: those, and the keys of the backgrounds.
CacheKeys ==
  CallKeys \cup {Key(b.src, b.width, b.height) : b \in Backgrounds} \cup RepeatKeys

NoKey == Key("none", 1, 1)

\* A call that has not been made.  `hit' tells a call that returned the
\* cached object without loading; `prior' is the set of objects returned by
\* the calls for the same key that had completed when this one was made;
\* `loads' counts the Image objects the call has created and given a src;
\* `retry' tells a call made after a call for the same key had failed.
IdleCall ==
  [pc |-> "idle", key |-> NoKey, ret |-> 0, hit |-> FALSE, prior |-> {}, loads |-> 0,
   retry |-> FALSE]

InitCache ==
  /\ cache = [k \in CacheKeys |-> 0]
  /\ heap = <<>>
  /\ calls = [c \in 1..MaxCalls |-> IdleCall]
  /\ sets = [k \in CacheKeys |-> 0]

\* The objects the completed calls for `key' have returned.
Completed(key) ==
  {calls[d].ret : d \in {e \in 1..MaxCalls : calls[e].pc = "done" /\ calls[e].key = key}}

\* Some call for `key' has been rejected.
Failed(key) == \E e \in 1..MaxCalls : calls[e].pc = "failed" /\ calls[e].key = key

\* getHeatmap(bgSrc, origW, origH) up to its first await: the cached object
\* is returned if there is one, else the image starts loading.
StartCall(c, key) ==
  /\ calls[c].pc = "idle"
  /\ calls' = [calls EXCEPT ![c] =
                 IF cache[key] # 0
                 THEN [pc |-> "done", key |-> key, ret |-> cache[key], hit |-> TRUE,
                       prior |-> Completed(key), loads |-> 0, retry |-> Failed(key)]
                 ELSE [pc |-> "loading", key |-> key, ret |-> 0, hit |-> FALSE,
                       prior |-> Completed(key), loads |-> 1, retry |-> Failed(key)]]
  /\ UNCHANGED <<cache, heap, sets>>

\* A getHeatmap that keeps one Heatmap object and fills it anew on every
\* build: the object it returned before is written over.
FinishLoadPooled(c) ==
  LET key == calls[c].key
  IN /\ calls[c].pc = "loading"
     /\ Loads(key[1])
     /\ IF DimsAreNaN(key[2])
        THEN /\ calls' = [calls EXCEPT ![c].pc = "failed"]
             /\ UNCHANGED <<cache, heap, sets>>
        ELSE /\ heap' = <<BuildHeatmap(key[1], key[2], key[3])>>
             /\ cache' = [cache EXCEPT ![key] = 1]
             /\ sets' = [sets EXCEPT ![key] = @ + 1]
             /\ calls' = [calls EXCEPT ![c].pc = "done", ![c].ret = 1]

\* im.onload: the rest of getHeatmap runs to its end.  With origW = 0 the
\* scale is NaN and so are w and h; ctx.getImageData(0, 0, NaN, NaN) throws
\* (the browser reads the NaN sizes as 0), which rejects the call.
FinishLoad(c) ==
  LET key == calls[c].key
  IN /\ calls[c].pc = "loading"
     /\ Loads(key[1])
     /\ IF DimsAreNaN(key[2])
        THEN /\ calls' = [calls EXCEPT ![c].pc = "failed"]
             /\ UNCHANGED <<cache, heap, sets>>
        ELSE /\ heap' = Append(heap, BuildHeatmap(key[1], key[2], key[3]))
             /\ cache' = [cache EXCEPT ![key] = Len(heap) + 1]
             /\ sets' = [sets EXCEPT ![key] = @ + 1]
             /\ calls' = [calls EXCEPT ![c].pc = "done", ![c].ret = Len(heap) + 1]

\* im.onerror stores the failure under the key and rejects: a getHeatmap that
\* remembers the images that did not load.
FailLoadCached(c) ==
  /\ calls[c].pc = "loading"
  /\ ~Loads(calls[c].key[1])
  /\ calls' = [calls EXCEPT ![c].pc = "failed"]
  /\ heap' = Append(heap, NoHeat)
  /\ cache' = [cache EXCEPT ![calls[c].key] = Len(heap) + 1]
  /\ UNCHANGED sets

\* im.onerror: the awaited promise rejects, and getHeatmap with it.
FailLoad(c) ==
  /\ calls[c].pc = "loading"
  /\ ~Loads(calls[c].key[1])
  /\ calls' = [calls EXCEPT ![c].pc = "failed"]
  /\ UNCHANGED <<cache, heap, sets>>

----------------------------------------------------------------------------
(* The handlers of the editor that act on the store.                       *)

\* The layers added by hand in one session, and the snapshots of history.past
\* beyond which no further change is committed in a session of SpecStore.
MaxLayers == 2
MaxPast == 2

NoUndo == [valid |-> FALSE, expected |-> Doc(initialState)]

InitStore ==
  /\ bg = initialState.bg
  /\ layers = initialState.layers
  /\ selectedIds = initialState.selectedIds
  /\ zoom = initialState.zoom
  /\ past = initialState.past
  /\ future = initialState.future
  /\ nextId = 1
  /\ trail = <<>>
  /\ undone = NoUndo

\* The bookkeeping of a handler that changed the document and committed:
\* `pre' is the document before the change.  The trail follows the last
\* MaxPast committed changes.
Committed(pre) ==
  /\ trail' = (IF Len(trail) >= MaxPast THEN Tail(trail) ELSE trail) \o <<pre>>
  /\ undone' = NoUndo

\* The bookkeeping of a handler that wrote the document without a commit.
Uncommitted ==
  /\ trail' = <<>>
  /\ undone' = NoUndo

\* The layers that are selected, in layer order:
\* layers.filter((layer) => selectedIds.includes(layer.id))
IsSelected(id) == \E i \in 1..Len(selectedIds) : selectedIds[i] = id

selectedLayers ==
  LET chosen(l) == IsSelected(l.id)
  IN SelectSeq(layers, chosen)

\* forEach over layers: updateLayer(l.id, patch) for each, first to last.
RECURSIVE UpdateEach(_, _, _)
UpdateEach(S, ls, patch) ==
  IF ls = <<>> THEN S
  ELSE UpdateEach(updateLayer(S, Head(ls).id, patch), Tail(ls), patch)

\* selectedIds.forEach((id) => deleteLayer(id))
RECURSIVE DeleteEach(_, _)
DeleteEach(S, ids) ==
  IF ids = <<>> THEN S
  ELSE DeleteEach(deleteLayer(S, Head(ids)), Tail(ids))

\* ImageUpload: setBg({ src, width, height })
Upload ==
  /\ \E b \in Backgrounds : Set(setBg(Store, b))
  /\ Uncommitted
  /\ UNCHANGED nextId
  /\ UNCHANGED <<placeVars, cacheVars, magic>>

\* The page opens on a share link: hydrateFromShare(doc)
HydrateFromShare ==
  /\ \E doc \in SharedDocs :
       /\ Set(hydrateFromShare(Store, doc))
       /\ nextId' = MaxId(doc.layers) + 1
  /\ Uncommitted
  /\ UNCHANGED <<placeVars, cacheVars, magic>>

\* handleAddText
HandleAddText ==
  /\ bg # Null
  /\ nextId <= MaxLayers
  /\ Set(addTextLayer(Store, nextId))
  /\ nextId' = nextId + 1
  /\ Uncommitted
  /\ UNCHANGED <<placeVars, cacheVars, magic>>

\* A click on a text node, with or without the additive key
ClickLayer ==
  /\ \E i \in 1..Len(layers), additive \in BOOLEAN :
       LET id == layers[i].id
           other(s) == s # id
           next == IF IsSelected(id) THEN SelectSeq(selectedIds, other)
                   ELSE Append(selectedIds, id)
       IN Set(selectLayers(Store, IF additive THEN next ELSE <<id>>))
  /\ Uncommitted
  /\ UNCHANGED nextId
  /\ UNCHANGED <<placeVars, cacheVars, magic>>

\* Inspector: handleUpdate('fill', value), with white picked
HandleUpdate ==
  /\ selectedLayers # <<>>
  /\ \E value \in {White} :
       Set(commit(UpdateEach(Store, selectedLayers, [fill |-> value])))
  /\ Committed(Doc(Store))
  /\ UNCHANGED nextId
  /\ UNCHANGED <<placeVars, cacheVars, magic>>

\* AlignTools: handleAlign('left')
HandleAlign ==
  /\ Len(selectedLayers) >= 2
  /\ LET lefts == {selectedLayers[i].x : i \in 1..Len(selectedLayers)}
         targetValue == CHOOSE m \in lefts : \A v \in lefts : m <= v
     IN Set(commit(UpdateEach(Store, selectedLayers, [x |-> targetValue])))
  /\ Committed(Doc(Store))
  /\ UNCHANGED nextId
  /\ UNCHANGED <<placeVars, cacheVars, magic>>

\* Canvas key handler, Delete or Backspace
DeleteKey ==
  /\ selectedIds # <<>>
  /\ Set(commit(DeleteEach(Store, selectedIds)))
  /\ Committed(Doc(Store))
  /\ UNCHANGED nextId
  /\ UNCHANGED <<placeVars, cacheVars, magic>>

\* Cmd/Ctrl + Z
Undo ==
  /\ Set(undo(Store))
  /\ IF past # <<>> /\ trail # <<>>
     THEN /\ undone' = [valid |-> TRUE, expected |-> trail[Len(trail)]]
          /\ trail' = SubSeq(trail, 1, Len(trail) - 1)
     ELSE Uncommitted
  /\ UNCHANGED nextId
  /\ UNCHANGED <<placeVars, cacheVars, magic>>

\* Cmd/Ctrl + Shift + Z
Redo ==
  /\ Set(redo(Store))
  /\ Uncommitted
  /\ UNCHANGED nextId
  /\ UNCHANGED <<placeVars, cacheVars, magic>>

\* handleReset, confirmed
HandleReset ==
  /\ Set(reset)
  /\ nextId' = 1
  /\ Uncommitted
  /\ UNCHANGED <<placeVars, cacheVars, magic>>

----------------------------------------------------------------------------
(* Magic Place: handleMagicPlace, from the click to its commit.            *)

MagicMargin == 12
MagicPad == 8

\* No run in progress.  `moved' holds the ids the last finished run moved.
IdleMagic ==
  [pc |-> "idle", call |-> 0, layers |-> <<>>, selectedIds |-> <<>>,
   plan |-> <<>>, idx |-> 0, mid |-> FALSE, moved |-> {}]

InitMagic == magic = IdleMagic

\* layers.filter((l) => l.id !== id).map((l) => ({ x, y, width, height }))
AvoidRects(ls, id) ==
  LET other(l) == l.id # id
      others == SelectSeq(ls, other)
  IN [i \in 1..Len(others) |->
        Rect(others[i].x, others[i].y, others[i].width, others[i].height)] \o <<>>

\* The body of selectedIds.forEach for one id: where the layer starts, and
\* the target suggestPlacement gives.
Target(heat, ls, id) ==
  LET Move(layer, res) ==
        [id |-> id, sx |-> layer.x, sy |-> layer.y, tx |-> res.x, ty |-> res.y]
      Aim(layer) ==
        Move(layer,
             suggestPlacement(Opts(heat, Max(1, layer.width), Max(1, layer.height),
                                   layer.fill, MagicMargin, AvoidRects(ls, id), MagicPad)))
  IN Aim(ls[Find(ls, id)])

\* The animations, one for each selected id that names a layer.
Animations(heat, ls, ids) ==
  LET found(id) == Find(ls, id) # 0
      present == SelectSeq(ids, found)
  IN [i \in 1..Len(present) |-> Target(heat, ls, present[i])] \o <<>>

\* Math.round(s + (t - s) * k) for k = k2 / 2 and t a fraction: easeInOut
\* gives 1/2 at the half of the duration and 1 at its end.
FrameAt(s, t, k2) == RoundDiv(2 * s * t.d + (t.n - s * t.d) * k2, 2 * t.d)

\* What the handler does once it holds the heatmap: the forEach, and the
\* commit at once if there is nothing to animate.
Planned(heat) ==
  LET Run(plan) ==
        IF plan = <<>>
        THEN /\ magic' = IdleMagic
             /\ Set(commit(Store))
        ELSE /\ magic' = [magic EXCEPT !.pc = "animate", !.plan = plan, !.idx = 1]
             /\ UNCHANGED storeDoc
  IN Run(Animations(heat, magic.layers, magic.selectedIds))

\* The button: the guard, the capture of this render's layers and
\* selectedIds, and getHeatmap up to its await.
MagicStart ==
  /\ magic.pc = "idle"
  /\ bg # Null
  /\ selectedIds # <<>>
  /\ \E c \in 1..MaxCalls :
       /\ \A d \in 1..(c - 1) : calls[d].pc # "idle"
       /\ StartCall(c, Key(bg.src, bg.width, bg.height))
       /\ magic' = [IdleMagic EXCEPT !.pc = "heat", !.call = c, !.layers = layers,
                                     !.selectedIds = selectedIds]
  /\ UNCHANGED storeDoc
  /\ Uncommitted
  /\ UNCHANGED nextId
  /\ UNCHANGED placeVars

\* getHeatmap returned the cached heatmap: the handler goes on.
MagicCached ==
  /\ magic.pc = "heat"
  /\ calls[magic.call].pc = "done"
  /\ Planned(heap[calls[magic.call].ret])
  /\ UNCHANGED cacheVars
  /\ Uncommitted
  /\ UNCHANGED nextId
  /\ UNCHANGED placeVars

\* The image has loaded: getHeatmap builds and returns, the handler goes on.
MagicImageLoaded ==
  /\ magic.pc = "heat"
  /\ FinishLoad(magic.call)
  /\ IF calls'[magic.call].pc = "failed"
     THEN /\ magic' = IdleMagic
          /\ UNCHANGED storeDoc
     ELSE Planned(heap'[calls'[magic.call].ret])
  /\ Uncommitted
  /\ UNCHANGED nextId
  /\ UNCHANGED placeVars

\* The image failed to load: the catch logs the error.
MagicImageError ==
  /\ magic.pc = "heat"
  /\ FailLoad(magic.call)
  /\ magic' = IdleMagic
  /\ UNCHANGED storeDoc
  /\ Uncommitted
  /\ UNCHANGED nextId
  /\ UNCHANGED placeVars

\* A handler that commits at the end of each animation, not once after
\* the loop.
MagicFrameCommitEach ==
  /\ magic.pc = "animate"
  /\ LET p == magic.plan[magic.idx]
     IN \E final \in BOOLEAN :
          LET k2 == IF final THEN 2 ELSE 1
              S1 == updateLayer(Store, p.id,
                                [x |-> FrameAt(p.sx, p.tx, k2), y |-> FrameAt(p.sy, p.ty, k2)])
          IN IF ~final
             THEN /\ ~magic.mid
                  /\ magic' = [magic EXCEPT !.mid = TRUE]
                  /\ Set(S1)
             ELSE IF magic.idx < Len(magic.plan)
             THEN /\ magic' = [magic EXCEPT !.idx = @ + 1, !.mid = FALSE]
                  /\ Set(commit(S1))
             ELSE /\ magic' = [IdleMagic EXCEPT
                                 !.moved = {magic.plan[i].id : i \in 1..Len(magic.plan)}]
                  /\ Set(commit(S1))
  /\ UNCHANGED cacheVars
  /\ Uncommitted
  /\ UNCHANGED nextId
  /\ UNCHANGED placeVars

\* One animation frame of the running animation: at half the duration, or
\* at its end.  The end of the last animation is followed by commit().
MagicFrame ==
  /\ magic.pc = "animate"
  /\ LET p == magic.plan[magic.idx]
     IN \E final \in BOOLEAN :
          LET k2 == IF final THEN 2 ELSE 1
              S1 == updateLayer(Store, p.id,
                                [x |-> FrameAt(p.sx, p.tx, k2), y |-> FrameAt(p.sy, p.ty, k2)])
          IN IF ~final
             THEN /\ ~magic.mid
                  /\ magic' = [magic EXCEPT !.mid = TRUE]
                  /\ Set(S1)
             ELSE IF magic.idx < Len(magic.plan)
             THEN /\ magic' = [magic EXCEPT !.idx = @ + 1, !.mid = FALSE]
                  /\ Set(S1)
             ELSE /\ magic' = [IdleMagic EXCEPT
                                 !.moved = {magic.plan[i].id : i \in 1..Len(magic.plan)}]
                  /\ Set(commit(S1))
  /\ UNCHANGED cacheVars
  /\ Uncommitted
  /\ UNCHANGED nextId
  /\ UNCHANGED placeVars

----------------------------------------------------------------------------
(* The specifications.                                                     *)

\* A heatmap is built for one of the images.
PlaceBuild ==
  /\ plPc = "start"
  /\ \E img \in SmallImages \cup WideImages \cup ScenarioImages \cup TinyImages :
       /\ plImg' = img
       /\ plHeat' = BuildHeatmap(img[1], img[2], img[3])
  /\ plPc' = "built"
  /\ UNCHANGED <<plOpts, plOut, runs, col, page, keys>>
  /\ UNCHANGED <<cacheVars, storeVars, magic>>

\* The call: suggestPlacement(opts) on that heatmap
Suggest ==
  /\ plPc = "built"
  /\ \E opts \in Requests(plImg, plHeat) :
       /\ plOpts' = opts
       /\ plOut' = Search(opts)
  /\ plPc' = "done"
  /\ UNCHANGED <<plImg, plHeat, runs, col, page, keys>>
  /\ UNCHANGED <<cacheVars, storeVars, magic>>

Init == InitPlace /\ InitCache /\ InitStore /\ InitMagic

NextPlace == PlaceBuild \/ Suggest

SpecPlace == Init /\ [][NextPlace]_vars

\* Some caller makes the next call of getHeatmap.
GetHeatmapCall ==
  /\ \E c \in 1..MaxCalls :
       /\ \A d \in 1..(c - 1) : calls[d].pc # "idle"
       /\ \E key \in CallKeys : StartCall(c, key)
  /\ UNCHANGED <<placeVars, storeVars, magic>>

\* The image of a waiting call has loaded.
ImageLoaded ==
  /\ \E c \in 1..MaxCalls : FinishLoad(c)
  /\ UNCHANGED <<placeVars, storeVars, magic>>

\* The image of a waiting call has failed to load.
ImageError ==
  /\ \E c \in 1..MaxCalls : FailLoad(c)
  /\ UNCHANGED <<placeVars, storeVars, magic>>

NextCache == GetHeatmapCall \/ ImageLoaded \/ ImageError

SpecCache == Init /\ [][NextCache]_vars

\* suggestPlacement called twice with one Heatmap object and one request,
\* while getHeatmap is called for other images.

\* The requests of those calls, on the heatmap hm.
RepeatRequests(hm) ==
  {Opts(hm, 7, 4, White, 0, rects, 0) : rects \in {<<>>, <<Rect(0, 0, 2, 8)>>}}

RepeatCall ==
  /\ \E c \in 1..MaxCalls :
       /\ \A d \in 1..(c - 1) : calls[d].pc # "idle"
       /\ \E key \in RepeatKeys : StartCall(c, key)
  /\ UNCHANGED <<placeVars, storeVars, magic>>

\* A caller that holds the Heatmap a call returned passes it to
\* suggestPlacement, and later passes the same object with the same request
\* once more.  A run records the object's address, the request (its avoid
\* rects: the requests of the model differ in nothing else), the result and
\* the number of heatmaps built when the call was made.
SuggestAgain ==
  /\ Len(runs) < 2
  /\ \E c \in 1..MaxCalls :
       /\ calls[c].pc = "done"
       /\ runs # <<>> => calls[c].ret = runs[1].obj
       /\ \E opts \in RepeatRequests(heap[calls[c].ret]) :
            /\ runs # <<>> => opts.avoidRects = runs[1].rects
            /\ runs' = Append(runs, [obj |-> calls[c].ret, rects |-> opts.avoidRects,
                                     result |-> suggestPlacement(opts),
                                     built |-> Len(heap)])
  /\ UNCHANGED <<plImg, plHeat, plOpts, plOut, plPc, col, page, keys>>
  /\ UNCHANGED <<cacheVars, storeVars, magic>>

\* The sizes of the images whose heatmap dimensions are computed: all small
\* ones, and some around the 384 ceiling and its multiples.
MaxSmallDim == 12

SizeDims == (1..MaxSmallDim) \cup {383, 384, 385, 400, 767, 768, 769, 1152, 1280, 4000}

\* getHeatmap's computation of maxW, scale, w and h alone, for an image of
\* origW x origH: the Heatmap's w, h and scale, its tables left out.
PlaceSize ==
  /\ plPc = "start"
  /\ \E origW \in SizeDims, origH \in SizeDims :
       /\ plImg' = <<"gray", origW, origH>>
       /\ plHeat' = [NoHeat EXCEPT !.w = HeatW(origW), !.h = HeatH(origW, origH),
                                    !.sn = ScaleN(origW), !.sd = ScaleD(origW)]
  /\ plPc' = "sized"
  /\ UNCHANGED <<plOpts, plOut, runs, col, page, keys>>
  /\ UNCHANGED <<cacheVars, storeVars, magic>>

NextSize == PlaceSize

SpecSize == Init /\ [][NextSize]_vars

\* The colour utilities called on well-formed 6-digit hex strings.

\* The channel values of the colours checked.
ChannelValues == {0, 9, 10, 128, 171, 255}

\* The strings of r, g, b: with or without '#', digits in lower or upper
\* case.
HexStrings(r, g, b) ==
  LET HexPair(v, chars) == <<chars[(v \div 16) + 1], chars[(v % 16) + 1]>>
  IN {hash \o HexPair(r, chars) \o HexPair(g, chars) \o HexPair(b, chars) :
        hash \in {<<>>, <<"#">>}, chars \in {HexChars, UpperHexChars}}

\* The colours of which pairs are compared.
ContrastColours ==
  UNION {HexStrings(v[1], v[2], v[3]) :
           v \in {<<0, 0, 0>>, <<255, 255, 255>>, <<128, 128, 128>>, <<255, 0, 0>>,
                  <<0, 171, 10>>, <<9, 9, 255>>}}

\* rgbToHex(hexToRgb(h))
HexRoundTrip ==
  /\ col.pc = "idle"
  /\ \E r \in ChannelValues, g \in ChannelValues, b \in ChannelValues :
       \E h \in HexStrings(r, g, b) :
         col' = [NoColour EXCEPT !.pc = "hex", !.a = h, !.hex = rgbToHex(hexToRgb(h))]
  /\ UNCHANGED <<plImg, plHeat, plOpts, plOut, plPc, runs, page, keys>>
  /\ UNCHANGED <<cacheVars, storeVars, magic>>

\* contrastRatio(a, b), contrastRatio(b, a), contrastRatio(a, a) and
\* relativeLuminance(a)
ContrastCall ==
  /\ col.pc = "idle"
  /\ \E a \in ContrastColours, b \in ContrastColours :
       col' = [NoColour EXCEPT !.pc = "contrast", !.a = a, !.b = b,
                               !.ab = contrastRatio(a, b), !.ba = contrastRatio(b, a),
                               !.aa = contrastRatio(a, a), !.La = relativeLuminance(a)]
  /\ UNCHANGED <<plImg, plHeat, plOpts, plOut, plPc, runs, page, keys>>
  /\ UNCHANGED <<cacheVars, storeVars, magic>>

NextColour == HexRoundTrip \/ ContrastCall

SpecColour == Init /\ [][NextColour]_vars

NextRepeat == RepeatCall \/ ImageLoaded \/ SuggestAgain

SpecRepeat == Init /\ [][NextRepeat]_vars

NextStore ==
  \/ Upload
  \/ HydrateFromShare
  \/ HandleAddText
  \/ ClickLayer
  \/ (Len(past) < MaxPast /\ HandleUpdate)
  \/ (Len(past) < MaxPast /\ HandleAlign)
  \/ (Len(past) < MaxPast /\ DeleteKey)
  \/ Undo
  \/ Redo
  \/ HandleReset

SpecStore == Init /\ [][NextStore]_vars

\* A long session: changes are committed without end, with undo and redo
\* between them.  Text layers are added before the second commit, and the
\* selection is the one addTextLayer makes.
NextHistory ==
  \/ Upload
  \/ HydrateFromShare
  \/ (Len(past) <= 1 /\ HandleAddText)
  \/ HandleUpdate
  \/ Undo
  \/ Redo
  \/ HandleReset

SpecHistory == Init /\ [][NextHistory]_vars

\* The load of the page.  The persist middleware rehydrates the store from
\* the autosave; the effect of Home hydrates it from the share link.

\* partialize: what the middleware keeps of the store (lastSavedAt left out).
Persisted(b, ls, ids, z, ps) ==
  [bg |-> b, layers |-> ls, selectedIds |-> ids, zoom |-> z, presets |-> ps]

\* handleShareCopy: the document of a share link, made from the store's bg,
\* layers, zoom and presets.
LinkDoc(b, ls, z, ps) == [v |-> 1, bg |-> b, layers |-> ls, zoom |-> <<z>>, presets |-> ps]

\* What localStorage holds when the page opens: nothing, an empty document,
\* or a document with a layer selected, each left there by the editor.
Autosaves ==
  {<<>>,
   <<Persisted(Null, <<>>, <<>>, ZoomOne, <<>>)>>,
   <<Persisted(GrayBg, <<TextLayer(1, 4, 4, 10, 6, Black)>>, <<1>>, 2 * ZoomOne, <<"title">>)>>,
   <<Persisted(BrokenBg, <<TextLayer(1, 0, 0, 10, 6, White), TextLayer(2, 8, 8, 10, 6, White)>>,
               <<2, 1>>, ZoomMin, <<"title", "caption">>)>>}

\* What the URL hash holds: no #s= payload, links made by the editor, a
\* payload of another version, and a version 1 payload without layers.
Links ==
  {<<>>,
   <<LinkDoc(Null, <<>>, ZoomOne, <<>>)>>,
   <<LinkDoc(GrayBg, <<TextLayer(1, 30, 0, 10, 6, White)>>, 3 * ZoomOne, <<"caption">>)>>,
   <<LinkDoc(GrayBg, <<TextLayer(1, 4, 4, 10, 6, Black), TextLayer(2, 0, 30, 10, 6, Black)>>,
             ZoomMax, <<>>)>>,
   <<[v |-> 2, bg |-> GrayBg, layers |-> <<>>, zoom |-> <<ZoomOne>>, presets |-> <<>>]>>,
   <<[v |-> 1, bg |-> GrayBg, zoom |-> <<ZoomOne>>]>>}

\* The number of times the effect is mounted in one load (React mounts it
\* again after a cleanup).
MaxMounts == 2

\* The merge of the rehydration: the persisted fields replace the store's.
rehydrate(S, saved) ==
  [S EXCEPT !.bg = saved.bg, !.layers = saved.layers,
            !.selectedIds = saved.selectedIds, !.zoom = saved.zoom]

\* hydrateFromShare, its assignment of state.presets
hydratePresets(ps, doc) ==
  IF doc.v # 1 THEN ps
  ELSE IF "presets" \in DOMAIN doc THEN doc.presets ELSE <<>>

\* run() of the effect on the store S and the page pg: the two after it.
run(S, pg) ==
  IF pg.hash = <<>> THEN [store |-> S, page |-> pg]
  ELSE LET doc == pg.hash[1]
       IN IF doc.v # 1 THEN [store |-> S, page |-> pg]
          ELSE IF "layers" \in DOMAIN doc
               THEN [store |-> hydrateFromShare(S, doc),
                     page |-> [pg EXCEPT !.hash = <<>>,
                                         !.presets = hydratePresets(@, doc),
                                         !.applied = @ + 1,
                                         !.early = @ \/ ~pg.hydrated]]
               ELSE [store |-> S, page |-> [pg EXCEPT !.hash = <<>>]]

\* The store and the page become those of `out'.
Loaded(out) ==
  /\ Set(out.store)
  /\ page' = out.page
  /\ nextId' = MaxId(out.store.layers) + 1
  /\ Uncommitted
  /\ UNCHANGED <<plImg, plHeat, plOpts, plOut, plPc, runs, col, keys>>
  /\ UNCHANGED <<cacheVars, magic>>

\* The browser opens the page.
OpenPage ==
  /\ page.pc = "closed"
  /\ \E hash \in Links, saved \in Autosaves :
       page' = [NoPage EXCEPT !.pc = "loading", !.hash = hash, !.link = hash,
                              !.autosave = saved]
  /\ UNCHANGED <<plImg, plHeat, plOpts, plOut, plPc, runs, col, keys>>
  /\ UNCHANGED <<cacheVars, storeVars, magic>>

\* The middleware finishes the rehydration: it merges the autosave into the
\* store, hasHydrated() becomes true, and the onFinishHydration listeners run.
FinishHydration ==
  /\ page.pc = "loading"
  /\ ~page.hydrated
  /\ LET merged == IF page.autosave = <<>> THEN Store
                   ELSE rehydrate(Store, page.autosave[1])
         pg == [page EXCEPT !.hydrated = TRUE,
                            !.presets = IF page.autosave = <<>> THEN @
                                        ELSE page.autosave[1].presets]
     IN Loaded(IF page.subscribed THEN run(merged, pg)
               ELSE [store |-> merged, page |-> pg])

\* An effect that does not wait for the rehydration: run() at once.
EffectAtOnce ==
  /\ page.pc = "loading"
  /\ ~page.mounted
  /\ page.mounts < MaxMounts
  /\ Loaded(run(Store, [page EXCEPT !.mounted = TRUE, !.mounts = @ + 1]))

\* The effect of Home: run() if the rehydration has finished, otherwise
\* run is subscribed to its end.
Effect ==
  /\ page.pc = "loading"
  /\ ~page.mounted
  /\ page.mounts < MaxMounts
  /\ Loaded(IF page.hydrated
            THEN run(Store, [page EXCEPT !.mounted = TRUE, !.mounts = @ + 1])
            ELSE [store |-> Store,
                  page |-> [page EXCEPT !.mounted = TRUE, !.mounts = @ + 1,
                                        !.subscribed = TRUE]])

\* The cleanup of the effect: unsub()
Cleanup ==
  /\ page.mounted
  /\ page' = [page EXCEPT !.mounted = FALSE, !.subscribed = FALSE]
  /\ UNCHANGED <<plImg, plHeat, plOpts, plOut, plPc, runs, col, keys>>
  /\ UNCHANGED <<cacheVars, storeVars, magic>>

NextLoad == OpenPage \/ FinishHydration \/ Effect \/ Cleanup

SpecLoad == Init /\ [][NextLoad]_vars

\* The arrow keys on the canvas.  Time is a clock in milliseconds that
\* advances by TickMs; a setTimeout callback runs once its time has come.
CommitDelay == 150

TickMs == 50

\* The arrow keys pressed in one burst.
MaxNudges == 3

\* selectedIds.forEach: updateLayer(id, { x: layer.x + deltaX, y: layer.y +
\* deltaY }) for the layer found in `ls', the layers the handler holds.
RECURSIVE NudgeEach(_, _, _, _, _)
NudgeEach(S, ls, ids, deltaX, deltaY) ==
  IF ids = <<>> THEN S
  ELSE LET i == Find(ls, Head(ids))
           Moved(l) == updateLayer(S, Head(ids), [x |-> l.x + deltaX, y |-> l.y + deltaY])
       IN NudgeEach(IF i = 0 THEN S ELSE Moved(ls[i]), ls, Tail(ids), deltaX, deltaY)

\* An arrow key, less than 150 ms after the previous one if there was one:
\* the selected layers move by one pixel and a timer is set.
Nudge ==
  /\ selectedIds # <<>>
  /\ keys.count < MaxNudges
  /\ keys.count > 0 => keys.now - keys.last < CommitDelay
  /\ \E delta \in {<<1, 0>>, <<0, 0 - 1>>} :
       Set(NudgeEach(Store, layers, selectedIds, delta[1], delta[2]))
  /\ keys' = [keys EXCEPT !.count = @ + 1, !.last = keys.now,
                          !.timers = Append(@, keys.now + CommitDelay),
                          !.early = keys.commits]
  /\ Uncommitted
  /\ UNCHANGED nextId
  /\ UNCHANGED <<plImg, plHeat, plOpts, plOut, plPc, runs, col, page>>
  /\ UNCHANGED <<cacheVars, magic>>

\* A timer whose time has come runs its callback: commit()
TimerFires ==
  /\ keys.timers # <<>>
  /\ Head(keys.timers) <= keys.now
  /\ Set(commit(Store))
  /\ keys' = [keys EXCEPT !.timers = Tail(@), !.commits = @ + 1]
  /\ Committed(Doc(Store))
  /\ UNCHANGED nextId
  /\ UNCHANGED <<plImg, plHeat, plOpts, plOut, plPc, runs, col, page>>
  /\ UNCHANGED <<cacheVars, magic>>

\* Time passes, while a burst is under way or a timer is pending; a timer
\* whose time has come runs before the clock moves on.
Tick ==
  /\ keys.count > 0
  /\ keys.timers # <<>> \/ keys.now - keys.last < CommitDelay
  /\ keys.timers # <<>> => Head(keys.timers) > keys.now
  /\ keys' = [keys EXCEPT !.now = @ + TickMs]
  /\ UNCHANGED <<plImg, plHeat, plOpts, plOut, plPc, runs, col, page>>
  /\ UNCHANGED <<cacheVars, storeVars, magic>>

\* The user opens a link, selects layers, and then presses arrow keys.
NextNudge ==
  \/ (keys.count = 0 /\ HydrateFromShare)
  \/ (keys.count = 0 /\ ClickLayer)
  \/ Nudge
  \/ TimerFires
  \/ Tick

SpecNudge == Init /\ [][NextNudge]_vars

\* Magic Place on a shared document.  The user opens a link and selects
\* layers while no run is in progress.
NextMagic ==
  \/ (magic.pc = "idle" /\ HydrateFromShare)
  \/ (magic.pc = "idle" /\ ClickLayer)
  \/ MagicStart
  \/ MagicCached
  \/ MagicImageLoaded
  \/ MagicImageError
  \/ MagicFrame

SpecMagic == Init /\ [][NextMagic]_vars


----------------------------------------------------------------------------
(* Properties of suggestPlacement, over SpecPlace.                         *)

\* The call has returned.
Returned == plPc = "done"

\* The result came out of the grid search with a finite score.
GridChosen ==
  Returned /\ ~plOut.fallback /\ plOut.result.score.kind = "finite"

\* The box [x, x + textW) x [y, y + textH) of the result and the avoid rect
\* r overlap, both in original-image pixels (half-open intervals).
OverlapsOrig(res, opts, r) ==
  /\ res.x.n < (r.x + r.width) * res.x.d
  /\ res.x.n + opts.textW * res.x.d > r.x * res.x.d
  /\ res.y.n < (r.y + r.height) * res.y.d
  /\ res.y.n + opts.textH * res.y.d > r.y * res.y.d

\* The one avoid rect is the left half of the image.
LeftHalfAvoided ==
  /\ Len(plOpts.avoidRects) = 1
  /\ plOpts.avoidRects[1] = Rect(0, 0, plImg[2] \div 2, plImg[3])
  /\ plImg[2] % 2 = 0

\* C1: a result chosen by the grid search (finite score, no fallback, no
\* sentinel) does not overlap any avoid rect in original-image pixels, for
\* every scale and every avoidPadding >= 0; with the left half of the image
\* avoided the returned x lies in the right half.
C1_GridResultAvoidsRects ==
  GridChosen =>
    /\ \A i \in 1..Len(plOpts.avoidRects) :
         ~OverlapsOrig(plOut.result, plOpts, plOpts.avoidRects[i])
    /\ LeftHalfAvoided => 2 * plOut.result.x.n >= plImg[2]

\* The grid the loops are to walk, written from the bounds of the claim: the
\* number of columns and rows of points m + i*step within m..limit.
GridCount(m, limit, step) == IF limit < m THEN 0 ELSE (limit - m) \div step + 1

ClaimedStep(opts) ==
  LET tw == Max(6, RoundDiv(opts.textW * opts.heatmap.sn, opts.heatmap.sd))
      th == Max(6, RoundDiv(opts.textH * opts.heatmap.sn, opts.heatmap.sd))
  IN Max(4, Min(tw, th) \div 3)

ClaimedMargin(opts) == Max(0, (opts.margin * opts.heatmap.sn) \div opts.heatmap.sd)

\* The points of the grid in row-major order.
ClaimedGrid(opts) ==
  LET hm == opts.heatmap
      tw == Max(6, RoundDiv(opts.textW * hm.sn, hm.sd))
      th == Max(6, RoundDiv(opts.textH * hm.sn, hm.sd))
      m == ClaimedMargin(opts)
      step == ClaimedStep(opts)
      nx == GridCount(m, hm.w - m - tw, step)
      ny == GridCount(m, hm.h - m - th, step)
  IN [k \in 1..(nx * ny) |->
        <<m + ((k - 1) % nx) * step, m + ((k - 1) \div nx) * step>>]

\* The box fits the heatmap.
Fits(opts) ==
  /\ Max(6, RoundDiv(opts.textW * opts.heatmap.sn, opts.heatmap.sd)) < opts.heatmap.w
  /\ Max(6, RoundDiv(opts.textH * opts.heatmap.sn, opts.heatmap.sd)) < opts.heatmap.h

\* The indices of the grid points that overlap no (padded, scaled) avoid rect.
Survivors(opts) ==
  LET grid == ClaimedGrid(opts)
  IN {k \in 1..Len(grid) : ~Blocked(Consts(opts), grid[k][1], grid[k][2])}

\* The margin corner in original-image pixels: round(m / scale).
MarginCorner(opts) ==
  Rat(RoundDiv(ClaimedMargin(opts) * opts.heatmap.sd, opts.heatmap.sn), 1)

\* The average saliency of the box the search chose, in units of 1/SalOne.
ChosenAvgSal == AvgSal(plOpts, Consts(plOpts), plOut.best.x, plOut.best.y)

\* The end-to-end scenario: flat gray 400 x 300, a 100 x 40 white-text box,
\* margin 8, alpha 0.6, beta 0.4, no avoid rects.
FlatScenario ==
  /\ Returned
  /\ plImg = <<"gray", 400, 300>>
  /\ plOpts.textW = 100 /\ plOpts.textH = 40 /\ plOpts.textColor = White
  /\ plOpts.margin = 8 /\ plOpts.alpha = 6 /\ plOpts.beta = 4
  /\ plOpts.avoidRects = <<>>

\* A search of a flat image with nothing to avoid and at least one grid point.
FlatSearch ==
  /\ Returned
  /\ plImg[1] = "gray"
  /\ plOpts.avoidRects = <<>>
  /\ ~plOut.fallback
  /\ plOut.visited # <<>>

Sentinel == Returned /\ plOut.result.score.kind = "-Infinity"

\* The one avoid rect is the whole canvas.
WholeCanvasAvoided == plOpts.avoidRects = <<Rect(0, 0, plImg[2], plImg[3])>>

\* C7: the score is -Infinity exactly when the box fits and no grid candidate
\* survives (all overlap an avoid rect, or the grid is empty); the position
\* is then the margin corner; one avoid rect covering the whole canvas always
\* yields the sentinel.
C7_SentinelIffNoSurvivor ==
  Returned =>
    /\ Sentinel <=> (Fits(plOpts) /\ Survivors(plOpts) = {})
    /\ Sentinel => /\ plOut.result.x = MarginCorner(plOpts)
                   /\ plOut.result.y = MarginCorner(plOpts)
    /\ WholeCanvasAvoided => Sentinel

\* C8: when tw >= heatmap.w or th >= heatmap.h the result is x = y = m / scale
\* (not rounded) with score 0, no grid point was visited and no integral was
\* read; when the box fits, the call does not leave through the fallback.
C8_FallbackWhenTooBig ==
  Returned =>
    /\ ~Fits(plOpts) =>
         /\ plOut.fallback
         /\ plOut.result.x.n * plOpts.heatmap.sn
              = ClaimedMargin(plOpts) * plOpts.heatmap.sd * plOut.result.x.d
         /\ plOut.result.y.n * plOpts.heatmap.sn
              = ClaimedMargin(plOpts) * plOpts.heatmap.sd * plOut.result.y.d
         /\ plOut.result.x.d > 0 /\ plOut.result.y.d > 0
         /\ plOut.result.score = Finite(0)
         /\ plOut.visited = <<>>
         /\ plOut.reads = 0
    /\ Fits(plOpts) => ~plOut.fallback

\* A box as wide as the 400 x 300 image's heatmap left through the fallback:
\* x = y = 7 / 0.96 = 175 / 24.
C8_FallbackUnrounded ==
  /\ Returned /\ plOut.fallback
  /\ plImg = <<"gray", 400, 300>>
  /\ plOut.result.x.n * 24 = 175 * plOut.result.x.d
  /\ plOut.result.y.n * 24 = 175 * plOut.result.y.d

\* a <= b on computed scores: false when either is NaN
ScoreLe(a, b) == a.kind = "finite" /\ b.kind = "finite" /\ a.v <= b.v

\* C9: for a box that fits, the search visits exactly the grid points in
\* row-major order; when some visited point overlaps no avoid rect, the
\* returned candidate is one of those, no other of them scores higher, and
\* none before it in the order scores as high.
C9_GridOrderAndFirstMax ==
  (Returned /\ Fits(plOpts)) =>
    /\ plOut.visited = ClaimedGrid(plOpts)
    /\ LET grid == ClaimedGrid(plOpts)
           c == Consts(plOpts)
           ok == Survivors(plOpts)
           score == [k \in ok |-> ScoreAt(plOpts, c, grid[k][1], grid[k][2])]
       IN ok # {} =>
            \E k \in ok :
              /\ grid[k] = <<plOut.best.x, plOut.best.y>>
              /\ plOut.best.score = score[k]
              /\ \A j \in ok : ScoreLe(score[j], score[k])
              /\ \A j \in ok : j < k => score[j] # score[k]

----------------------------------------------------------------------------
(* Properties of the colour utilities, over SpecColour.                    *)

\* The string is '#' and six lower-case hexadecimal digits.
Canonical(h) ==
  /\ Len(h) = 7
  /\ h[1] = "#"
  /\ \A i \in 2..7 : \E k \in 1..16 : h[i] = HexChars[k]

\* The lower-case form of a hexadecimal digit.
LowerCase(c) == HexChars[CHOOSE k \in 1..16 : c = HexChars[k] \/ c = UpperHexChars[k]]

\* The six digits of h, without its '#' if it has one.
Digits(h) == IF h[1] = "#" THEN Tail(h) ELSE h

\* C16, as the code has it: for a well-formed 6-digit hex string h,
\* rgbToHex(hexToRgb(h)) is '#' followed by the six digits of h in lower
\* case; it is h itself exactly when h has the leading '#' and no upper-case
\* letter.
C16_RoundTripCanonical ==
  col.pc = "hex" =>
    /\ col.hex = <<"#">> \o [i \in 1..6 |-> LowerCase(Digits(col.a)[i])]
    /\ col.hex = col.a <=> Canonical(col.a)

\* 'AB0A09' has come back as '#ab0a09'.
C16_UpperNoHashNormalized ==
  /\ col.pc = "hex"
  /\ col.a = <<"A", "B", "0", "A", "0", "9">>
  /\ col.hex = <<"#", "a", "b", "0", "a", "0", "9">>

\* C16 as stated: rgbToHex(hexToRgb(h)) = h for every well-formed 6-digit
\* hex string, with or without '#', digits in either case.
C16_RoundTripIdentity == col.pc = "hex" => col.hex = col.a

\* C17: for all pairs of 6-digit hex colours a and b, contrastRatio(a, b) =
\* contrastRatio(b, a), contrastRatio(a, a) = 1 and 1 <= contrastRatio(a, b)
\* <= 21, the relative luminance of a colour lying in [0, 1].
C17_ContrastSymmetricBounded ==
  col.pc = "contrast" =>
    /\ ~IsNaN(col.ab) /\ ~IsNaN(col.ba) /\ ~IsNaN(col.aa) /\ ~IsNaN(col.La)
    /\ col.ab = col.ba
    /\ col.aa.n = col.aa.d
    /\ col.ab.d <= col.ab.n /\ col.ab.n <= 21 * col.ab.d
    /\ 0 <= col.La.n /\ col.La.n <= col.La.d

\* Red on mid-grey, the darker colour given first: a ratio strictly between
\* 1 and 21.
C17_RedOnGrey ==
  /\ col.pc = "contrast"
  /\ col.a = <<"#", "f", "f", "0", "0", "0", "0">>
  /\ col.b = <<"8", "0", "8", "0", "8", "0">>
  /\ relativeLuminance(col.a).n < relativeLuminance(col.b).n
  /\ col.ab.d < col.ab.n /\ col.ab.n < 21 * col.ab.d

----------------------------------------------------------------------------
(* Properties of a built heatmap, over SpecPlace.                          *)

\* The heatmap of one of the small images has been built and no call made.
SmallBuilt == plPc = "built" /\ plImg \in SmallImages

\* f[lo] + ... + f[hi]
RECURSIVE SumTo(_, _, _)
SumTo(f, lo, hi) == IF lo > hi THEN 0 ELSE f[hi] + SumTo(f, lo, hi - 1)

\* The sum of the values of a table (rows of cells, 1-based) over rows
\* y..y+h-1 and columns x..x+w-1 (0-based), cell by cell.
BruteSum(tab, x, y, w, h) ==
  SumTo([r \in (y + 1)..(y + h) |-> SumTo(tab[r], x + 1, x + w)], y + 1, y + h)

\* The source values of the four integral images of plHeat: the saliency,
\* and the three colour channels of the pixels the heatmap was built from.
SourceTables ==
  LET rgba == GetImageData(plImg[1], plHeat.w, plHeat.h)
      Channel(c) == [r \in 1..plHeat.h |-> [x \in 1..plHeat.w |-> rgba[r][x][c]]]
  IN <<plHeat.saliency, Channel(1), Channel(2), Channel(3)>>

IntegralTables == <<plHeat.integralS, plHeat.integralR, plHeat.integralG, plHeat.integralB>>

\* C13: in each of the four integral images of a built heatmap row 0 and
\* column 0 are zero, and for every rectangle inside the heatmap rectSum
\* equals the sum of the source values over the rectangle's cells.
C13_RectSumIsBruteSum ==
  SmallBuilt =>
    \A t \in 1..4 :
      LET integral == IntegralTables[t]
          source == SourceTables[t]
          W == plHeat.w
          H == plHeat.h
      IN /\ \A x \in 0..W : At(integral, x, W + 1) = 0
         /\ \A y \in 0..H : At(integral, y * (W + 1), W + 1) = 0
         /\ \A x \in 0..W, y \in 0..H :
              \A w \in 0..(W - x), h \in 0..(H - y) :
                rectSum(integral, x, y, w, h, W + 1) = BruteSum(source, x, y, w, h)

\* The heatmap of the busy image is built: away from the origin, a rectangle
\* of it has a saliency sum and a red sum that are not zero.
C13_BusyRectangle ==
  /\ SmallBuilt
  /\ plImg[1] = "busy"
  /\ rectSum(plHeat.integralS, 6, 4, 4, 4, plHeat.w + 1) > 0
  /\ rectSum(plHeat.integralR, 6, 4, 4, 4, plHeat.w + 1) > 0
  /\ At(plHeat.integralR, (plHeat.w + 1) + 1, plHeat.w + 1) > 0

\* The heatmap plHeat has been built from the image plImg.
Built == plPc # "start"

\* The values of the saliency grid of plHeat.
SaliencyValues == {plHeat.saliency[y][x] : y \in 1..plHeat.h, x \in 1..plHeat.w}

\* All pixels of the image the heatmap was built from have the same luma.
FlatImage ==
  LET rgba == GetImageData(plImg[1], plHeat.w, plHeat.h)
  IN \A y \in 1..plHeat.h, x \in 1..plHeat.w : Luma(rgba[y][x]) = Luma(rgba[1][1])

\* C14: every saliency value of a built heatmap lies in [0, 1]; the largest
\* is exactly 1 unless the image is flat, and the grid is all-zero only then,
\* for every image size.
C14_SaliencyNormalized ==
  Built =>
    /\ \A v \in SaliencyValues : 0 <= v /\ v <= SalOne
    /\ FlatImage => SaliencyValues = {0}
    /\ ~FlatImage => SalOne \in SaliencyValues

\* C15: for origW >= 1 and origH >= 1 the heatmap has w = min(384, origW),
\* scale = w / origW with 0 < scale <= 1, and h = max(1, round(origH * scale));
\* w and h are integers >= 1.
C15_HeatmapDimensions ==
  plPc = "sized" =>
    LET origW == plImg[2]
        origH == plImg[3]
        w == IF origW < 384 THEN origW ELSE 384
        rounded == (2 * origH * w + origW) \div (2 * origW)
    IN /\ plHeat.w = w
       /\ plHeat.sn * origW = w * plHeat.sd
       /\ 0 < plHeat.sn /\ plHeat.sn <= plHeat.sd
       /\ plHeat.h = (IF rounded < 1 THEN 1 ELSE rounded)
       /\ plHeat.w >= 1 /\ plHeat.h >= 1

\* A 1152 x 1 image: the width is cut to 384 and the height, which rounds to
\* 0, is floored at 1.
C15_WideAndFlatImage ==
  /\ plPc = "sized"
  /\ plImg = <<"gray", 1152, 1>>
  /\ plHeat.w = 384 /\ plHeat.h = 1
  /\ plHeat.sn * 3 = plHeat.sd

----------------------------------------------------------------------------
(* Properties of getHeatmap and the cache, over SpecCache.                 *)

\* The calls that have returned a Heatmap.
DoneCalls == {c \in 1..MaxCalls : calls[c].pc = "done"}

\* C5: for every key the cache entry is written at most once, whatever the
\* interleaving of the calls, and all callers for one key receive the same
\* Heatmap object.
C5_EntryWrittenOnce ==
  /\ \A k \in CacheKeys : sets[k] <= 1
  /\ \A c, d \in DoneCalls : calls[c].key = calls[d].key => calls[c].ret = calls[d].ret

\* C6: a call made after a call for the same key has completed returns the
\* identical object, without loading or building; a call that finds no entry
\* builds a heatmap and returns it; an entry once written stays.
C6_LaterCallReturnsCached ==
  /\ \A c \in DoneCalls :
       /\ \A obj \in calls[c].prior : calls[c].ret = obj /\ calls[c].hit
       /\ calls[c].ret \in 1..Len(heap)
  /\ \A k \in CacheKeys : sets[k] > 0 => cache[k] # 0

\* C10: a call with origW <= 0 or origH <= 0 returns no Heatmap and stores no
\* entry.
C10_InvalidDimensionsRejected ==
  \A c \in 1..MaxCalls :
    (calls[c].pc # "idle" /\ (calls[c].key[2] <= 0 \/ calls[c].key[3] <= 0)) =>
       /\ calls[c].pc # "done"
       /\ cache[calls[c].key] = 0

\* The calls that were rejected because their image did not load.
LoadFailures == {c \in 1..MaxCalls : calls[c].pc = "failed" /\ ~Loads(calls[c].key[1])}

\* C11: a call whose image fails to load is rejected after one load attempt
\* and leaves no entry under its key, and a call for the same key made after
\* the failure finds no entry and attempts the load again.
C11_FailedLoadNotCached ==
  /\ \A c \in LoadFailures :
       /\ calls[c].loads = 1
       /\ calls[c].ret = 0
       /\ cache[calls[c].key] = 0
       /\ sets[calls[c].key] = 0
  /\ \A d \in 1..MaxCalls :
       (calls[d].retry /\ ~Loads(calls[d].key[1])) =>
          /\ ~calls[d].hit
          /\ calls[d].loads = 1
          /\ calls[d].pc \in {"loading", "failed"}

\* A call was rejected, and a later call for its key is loading the image
\* again while the cache is as it was at the start.
C11_RetryAfterFailure ==
  \E c \in LoadFailures, d \in 1..MaxCalls :
    /\ c < d
    /\ calls[d].key = calls[c].key
    /\ calls[d].retry
    /\ calls[d].pc = "loading"
    /\ \A k \in CacheKeys : cache[k] = 0

----------------------------------------------------------------------------
(* Properties of repeated calls of suggestPlacement, over SpecRepeat.      *)

----------------------------------------------------------------------------
(* Properties of the history, over SpecStore.                              *)

\* C3: after a document change followed by commit(), one undo restores bg,
\* layers, selectedIds and zoom to their values before that change, and N
\* undos after N committed changes restore the document before the first.
C3_UndoRestoresBeforeChange ==
  undone.valid => Doc(Store) = undone.expected

----------------------------------------------------------------------------
(* Properties of the history's size, over SpecHistory.                     *)

----------------------------------------------------------------------------
(* Properties of Magic Place, over SpecMagic.                              *)

BoxesOverlap(a, b) ==
  /\ a.x < b.x + b.width
  /\ a.x + a.width > b.x
  /\ a.y < b.y + b.height
  /\ a.y + a.height > b.y

\* C2: after a Magic Place run has finished, no moved layer's box overlaps
\* the box of any other text layer, also when several layers were selected
\* and when suggestPlacement returned its fallback or its sentinel.
C2_MovedLayersOverlapNothing ==
  \A i, j \in 1..Len(layers) :
    (layers[i].id \in magic.moved /\ i # j) => ~BoxesOverlap(layers[i], layers[j])

----------------------------------------------------------------------------
(* Properties of the page load, over SpecLoad.                             *)

\* The page was opened on a share link: a version 1 payload with layers.
SharedLink ==
  /\ page.link # <<>>
  /\ page.link[1].v = 1
  /\ "layers" \in DOMAIN page.link[1]

----------------------------------------------------------------------------
(* The size of the work, over SpecSize.                                    *)

\* What the ceiling of 384 on the heatmap's width would give if the height
\* were held to it as well: the pixels of a 384 x 384 heatmap, and the grid
\* of the smallest box (6 x 6, step 4, no margin) on it.
PixelCeiling == MaxHeatW * MaxHeatW

GridCeiling == LoopTrips(0, MaxHeatW - MinBox, MinStep) * LoopTrips(0, MaxHeatW - MinBox, MinStep)

\* A call for a text box of 1 x 1 without margin on the sized heatmap.
SmallestBox == Opts(plHeat, 1, 1, White, 0, <<>>, 0)

\* C20: the number of grid candidates suggestPlacement visits and the pixel
\* count w * h of a built heatmap stay within a constant that does not depend
\* on the original image's width and height: the one the downscale ceiling
\* gives.
C20_WorkBounded ==
  plPc = "sized" =>
    /\ plHeat.w * plHeat.h <= PixelCeiling
    /\ GridVisits(SmallestBox) <= GridCeiling

----------------------------------------------------------------------------
(* The avoid rects in heatmap pixels, over SpecPlace.                      *)

\* The part of [x0, x1) x [y0, y1) inside the heatmap hm; all empty
\* rectangles are one.
Clipped(x0, x1, y0, y1, hm) ==
  LET Part(l, r, t, b) ==
        IF l >= r \/ t >= b THEN <<0, 0, 0, 0>> ELSE <<l, r, t, b>>
  IN Part(Max(0, x0), Min(hm.w, x1), Max(0, y0), Min(hm.h, y1))

\* The rectangle of the claim for the avoid rect r, written from its bounds.
ClaimedAvoid(r, opts) ==
  LET hm == opts.heatmap
      Round(v) == RoundDiv(v * hm.sn, hm.sd)
      pad == Round(opts.avoidPadding)
  IN Clipped(Round(r.x) - pad, Round(r.x) + Round(r.width) + pad,
             Round(r.y) - pad, Round(r.y) + Round(r.height) + pad, hm)

\* The pixels of the heatmap the computed rectangle b covers.
Covered(b, hm) == Clipped(b.x, b.x + b.w, b.y, b.y + b.h, hm)

\* C21: the heatmap-space rectangle computed for each avoid rect covers
\* the pixels of [round(x*s) - pad, round(x*s) + round(width*s) + pad) x
\* [round(y*s) - pad, round(y*s) + round(height*s) + pad) that lie inside the
\* heatmap, pad = round(avoidPadding*s), and no others, for every avoid rect.
C21_ScaledAvoidIsClippedRect ==
  Returned =>
    \A i \in 1..Len(plOpts.avoidRects) :
      Covered(scaledAvoid(plOpts)[i], plOpts.heatmap)
        = ClaimedAvoid(plOpts.avoidRects[i], plOpts)

----------------------------------------------------------------------------
(* The nudges of the arrow keys, over SpecNudge.                           *)

\* The burst is over: no further key belongs to it and no timer is pending.
BurstOver ==
  /\ keys.count > 0
  /\ keys.timers = <<>>
  /\ keys.count = MaxNudges \/ keys.now - keys.last >= CommitDelay

\* C22: a burst of k arrow-key nudges, each less than 150 ms after the one
\* before, produces exactly one history commit, and that commit is made
\* after the last nudge of the burst.
C22_OneCommitPerBurst ==
  /\ keys.early = 0
  /\ BurstOver => keys.commits = 1

----------------------------------------------------------------------------
(* The range of the score, over SpecPlace.                                 *)

\* beta / 21 and alpha + beta in the units of a score; the first is rounded
\* down as the scores are.
ScoreFloor(opts) == opts.beta * (SalOne \div MaxContrast)

ScoreCeiling(opts) == (opts.alpha + opts.beta) * SalOne

\* C23: with alpha >= 0 and beta > 0, a result that came from selecting a
\* grid candidate has a score of at least beta / 21, above 0, and at most
\* alpha + beta; score 0 is returned by the fallback only and -Infinity only
\* when no candidate survived, so the score alone tells the three apart.
C23_ScoreTellsOutcome ==
  Returned =>
    /\ GridChosen => /\ plOut.result.score.v >= ScoreFloor(plOpts)
                     /\ plOut.result.score.v > 0
                     /\ plOut.result.score.v <= ScoreCeiling(plOpts)
    /\ plOut.result.score = Finite(0) => plOut.fallback
    /\ Sentinel => ~plOut.fallback /\ Survivors(plOpts) = {}
    /\ plOut.result.score.kind \in {"finite", "-Infinity"}

----------------------------------------------------------------------------
(* The placed box and the image, over SpecPlace.                           *)

\* C24: for a result chosen by the grid search the placed box lies inside
\* the original image: 0 <= x, x + textW <= heatmap.w / scale, 0 <= y and
\* y + textH <= heatmap.h / scale.
C24_BoxInsideImage ==
  GridChosen =>
    LET hm == plOpts.heatmap
        x == plOut.result.x.n
        y == plOut.result.y.n
    IN /\ plOut.result.x.d = 1 /\ plOut.result.y.d = 1
       /\ 0 <= x
       /\ (x + plOpts.textW) * hm.sn <= hm.w * hm.sd
       /\ 0 <= y
       /\ (y + plOpts.textH) * hm.sn <= hm.h * hm.sd

----------------------------------------------------------------------------
(* Undo and redo as inverses, over SpecHistory.                            *)

\* C25: when history.past is not empty, undo followed at once by redo leaves
\* bg, layers, selectedIds, zoom, history.past and history.future as they
\* were before the undo; likewise redo followed by undo when history.future
\* is not empty.
C25_UndoRedoInverse ==
  /\ past # <<>> => redo(undo(Store)) = Store
  /\ future # <<>> => undo(redo(Store)) = Store

\* Both are possible, and each changes the layers.
C25_BetweenTwoDocuments ==
  /\ past # <<>> /\ future # <<>>
  /\ undo(Store).layers # layers
  /\ redo(Store).layers # layers

----------------------------------------------------------------------------
(* The order of a Magic Place run, over SpecMagic.                         *)

\* The selected ids of the run that name a layer, in selection order.
RunIds ==
  LET found(id) == Find(magic.layers, id) # 0
  IN SelectSeq(magic.selectedIds, found)

\* Every layer but the one called id is as it was.
OnlyMoves(id) ==
  /\ Len(layers') = Len(layers)
  /\ \A i \in 1..Len(layers) : layers[i].id # id => layers'[i] = layers[i]

\* The step made exactly one commit, of the document as the step leaves it.
OneCommit ==
  /\ past' = Append(past, JSONstringify(Doc([bg |-> bg', layers |-> layers',
                                             selectedIds |-> selectedIds',
                                             zoom |-> zoom'])))
  /\ future' = <<>>

\* C26: a Magic Place run that obtains a heatmap makes exactly one commit,
\* after the last animation updateLayer of the last selected layer, and
\* animates the layers one after another in selection order; when getHeatmap
\* fails no layer is moved and no commit is made.
C26_OneCommitAfterLastAnimation ==
  /\ [](magic.pc = "animate" =>
          /\ magic.idx \in 1..Len(magic.plan)
          /\ [i \in 1..Len(magic.plan) |-> magic.plan[i].id] = RunIds)
  /\ [][/\ (magic.pc = "idle" /\ magic'.pc = "heat") => UNCHANGED storeDoc
        /\ (magic.pc = "heat" /\ magic'.pc = "animate") => UNCHANGED storeDoc
        /\ (magic.pc = "heat" /\ magic'.pc = "idle"
              /\ calls'[magic.call].pc = "failed") => UNCHANGED storeDoc
        /\ (magic.pc = "heat" /\ magic'.pc = "idle"
              /\ calls'[magic.call].pc # "failed") =>
             /\ RunIds = <<>>
             /\ layers' = layers
             /\ OneCommit
        /\ (magic.pc = "animate" /\ magic'.pc = "animate") =>
             /\ past' = past /\ future' = future
             /\ OnlyMoves(RunIds[magic.idx])
             /\ magic'.idx = magic.idx \/ (magic'.idx = magic.idx + 1 /\ ~magic'.mid)
             /\ magic'.plan = magic.plan
        /\ (magic.pc = "animate" /\ magic'.pc = "idle") =>
             /\ magic.idx = Len(RunIds)
             /\ OnlyMoves(RunIds[magic.idx])
             /\ layers'[Find(layers, RunIds[magic.idx])].x
                  = RoundDiv(magic.plan[magic.idx].tx.n, magic.plan[magic.idx].tx.d)
             /\ OneCommit]_vars

\* A run on two selected layers has finished: both were animated, and the
\* commit holds the document with both at their targets.
C26_TwoLayersOneCommit ==
  /\ magic.pc = "idle"
  /\ Cardinality(magic.moved) = 2
  /\ Len(past) = 1
  /\ past[1] = JSONstringify(Doc(Store))

=============================================================================
